---- MODULE Spec2Model ----
(***************************************************************************)
(* Model of tfpluginschema: the version resolver (GetLatestVersionMatch),  *)
(* the Server cache orchestrator (Get, getSchema, the accessors,           *)
(* GetAvailableVersions and Cleanup) running on several goroutines that    *)
(* share one sync.RWMutex, the provider client with its subprocess, the    *)
(* translation of the provider's response, and the decoder of type         *)
(* signatures.                                                             *)
(***************************************************************************)
EXTENDS Integers, Sequences, FiniteSets, TLC

VARIABLES
    \* ---- resolver harness (GetLatestVersionMatch called on its own) ----
    rVersions,      \* the goversion.Collection argument
    rConstraints,   \* the goversion.Constraints argument
    rResult,        \* NoResult before the call, then [err, v]
    \* ---- environment of one run ----
    requestVersions, \* the Request.Version strings the callers pass
    registry,       \* body of the registry's versions response
    registryStatuses, \* the statuses other than 200 the registry answers, per endpoint
    schemaFaults,   \* the ways the provider's schema call can fail
    archives,       \* what the archives the registry serves can unpack to
    \* ---- type signatures and the provider's response ----
    tbuf,           \* the type-signature bytes under decoding, as a JSON document
    tres,           \* what decodeCtyTypeFromJSONBytes returned for tbuf
    wcats,          \* the names the provider serves in each category of its response
    \* ---- universalProviderClient and its provider subprocess ----
    uc,             \* the struct: which of v5, v6 and closeFunc are non-nil
    proc,           \* the subprocess: "none", "running" or "killed"
    wire,           \* the wire block the provider serves as its config schema
    cpc,            \* position of the schema() call
    rpcLog,         \* the schema RPCs sent so far, with their errors
    cres,           \* what schema() returned
    closes,         \* close() calls so far
    launches,       \* the attempts newGrpcClient made to start and connect the provider
    \* ---- Server (server.go) ----
    dlc,            \* downloadCache: resolved Request -> path of the executable
    sc,             \* schemaCache: resolved Request -> provider schema
    versionsc,      \* versionsCache: VersionsRequest -> ascending versions
    mu,             \* the sync.RWMutex: [writer, readers]
    tmpDir,         \* Server.tmpDir: "" until the first download creates it
    tmpExists,      \* the directory tmpDir names exists on disk
    cleanups,       \* Cleanup() calls so far
    extractDirs,    \* extraction directories that exist under tmpDir
    unpacked,       \* what unzip left in each extraction directory
    th,             \* per goroutine: position, arguments and locals
    results,        \* what the public calls that returned have returned
    downloadCalls,  \* registry download-metadata requests sent so far
    schemaCalls,    \* provider subprocesses launched so far
    procs,          \* the goroutines whose provider subprocess is running
    faults,         \* failures of external collaborators so far
    crashed         \* TRUE once a goroutine has panicked

resolverVars == <<rVersions, rConstraints, rResult>>

envVars == <<requestVersions, registry, registryStatuses, schemaFaults, archives>>

typeVars == <<tbuf, tres, wcats>>

clientVars == <<uc, proc, wire, cpc, rpcLog, cres, closes, launches>>

serverVars == <<dlc, sc, versionsc, mu, tmpDir, tmpExists, cleanups, extractDirs, unpacked, th,
                results,
                downloadCalls, schemaCalls, procs, faults, crashed>>

vars == <<rVersions, rConstraints, rResult, requestVersions, registry, registryStatuses,
          schemaFaults, archives, tbuf, tres, wcats,
          uc, proc, wire, cpc, rpcLog, cres, closes, launches, dlc, sc, versionsc, mu, tmpDir,
          tmpExists, cleanups,
          extractDirs, unpacked, th, results, downloadCalls, schemaCalls, procs, faults, crashed>>

\* An unset string-valued local.
Nil == "nil"

\* A nil *goversion.Version.
NilVersion == << >>

\* goversion.Constraints: a nil slice, or a slice of constraints.
NilConstraints == [isNil |-> TRUE, list |-> << >>]
Constraints(list) == [isNil |-> FALSE, list |-> list]

\* No goroutine (the lock has no writer).
NoThread == 0

\* ------------------------------------------------------------------------
\* Bounds
\* ------------------------------------------------------------------------
MaxLen == 4     \* longest version list handed to the resolver harness

\* ------------------------------------------------------------------------
\* goversion.Version / goversion.Constraints as the resolver uses them
\* ------------------------------------------------------------------------
\* A parsed version is its three numeric segments, followed by the
\* prerelease label when it has one.
Versions == { <<0, 9, 0>>, <<1, 0, 0>>, <<1, 5, 0>>, <<2, 0, 0>> }

\* a.Compare(b): -1, 0 or 1, segment by segment.
Compare(a, b) ==
    IF a[1] # b[1] THEN (IF a[1] < b[1] THEN -1 ELSE 1)
    ELSE IF a[2] # b[2] THEN (IF a[2] < b[2] THEN -1 ELSE 1)
    ELSE IF a[3] # b[3] THEN (IF a[3] < b[3] THEN -1 ELSE 1)
    ELSE IF Len(a) # Len(b) THEN (IF Len(a) > Len(b) THEN -1 ELSE 1)
    ELSE 0

\* One constraint is [op, v, si]: operator, operand version and the number of
\* segments the operand was written with (used by the pessimistic operator).
CheckOne(c, v) ==
    CASE c.op = ">=" -> Compare(v, c.v) >= 0
      [] c.op = ">"  -> Compare(v, c.v) > 0
      [] c.op = "<"  -> Compare(v, c.v) < 0
      [] c.op = "<=" -> Compare(v, c.v) <= 0
      [] c.op = "="  -> Compare(v, c.v) = 0
      [] c.op = "~>" -> /\ Compare(v, c.v) >= 0
                        /\ \A i \in 1..(c.si - 1) : v[i] = c.v[i]
                        /\ c.v[c.si] <= v[c.si]

\* constraints.Check(v): every constraint of the set is satisfied.
Check(cs, v) == \A i \in 1..Len(cs.list) : CheckOne(cs.list[i], v)

\* slices.IsSortedFunc(versions, Compare)
IsSortedFunc(vs) == \A i \in 1..(Len(vs) - 1) : Compare(vs[i + 1], vs[i]) >= 0

\* A scan that stops at the first satisfying element.
RECURSIVE ScanFirstGood(_, _, _, _)
ScanFirstGood(vs, cs, i, lastGood) ==
    IF i > Len(vs) THEN lastGood
    ELSE IF Check(cs, vs[i]) THEN vs[i]
    ELSE ScanFirstGood(vs, cs, i + 1, lastGood)

\* The scan "for _, v := range versions { if constraints.Check(v) { lastGood = v } }"
RECURSIVE ScanLastGood(_, _, _, _)
ScanLastGood(vs, cs, i, lastGood) ==
    IF i > Len(vs) THEN lastGood
    ELSE ScanLastGood(vs, cs, i + 1, IF Check(cs, vs[i]) THEN vs[i] ELSE lastGood)

ErrNoVersions == "no versions provided"
ErrNotSorted  == "versions are not sorted"
ErrNoMatch    == "no matching version found"

\* The harness before its call.
NoResult == [err |-> "pending", v |-> NilVersion]

Ok(v)  == [err |-> "", v |-> v]
Err(e) == [err |-> e, v |-> NilVersion]

\* GetLatestVersionMatch without the sortedness precondition.
GetLatestVersionMatch_NoSortCheck(versions, constraints) ==
    IF Len(versions) = 0 THEN Err(ErrNoVersions)
    ELSE IF constraints.isNil \/ Len(constraints.list) = 0
         THEN Ok(versions[Len(versions)])
    ELSE LET lastGood == ScanLastGood(versions, constraints, 1, NilVersion)
         IN  IF lastGood = NilVersion THEN Err(ErrNoMatch) ELSE Ok(lastGood)

\* GetLatestVersionMatch returning the first element when unconstrained.
GetLatestVersionMatch_First(versions, constraints) ==
    IF Len(versions) = 0 THEN Err(ErrNoVersions)
    ELSE IF ~IsSortedFunc(versions) THEN Err(ErrNotSorted)
    ELSE IF constraints.isNil \/ Len(constraints.list) = 0
         THEN Ok(versions[1])
    ELSE LET lastGood == ScanLastGood(versions, constraints, 1, NilVersion)
         IN  IF lastGood = NilVersion THEN Err(ErrNoMatch) ELSE Ok(lastGood)

\* GetLatestVersionMatch without the empty-list check: an empty list is
\* sorted, and unconstrained it yields a nil version with no error.
GetLatestVersionMatch_NoEmptyCheck(versions, constraints) ==
    IF ~IsSortedFunc(versions) THEN Err(ErrNotSorted)
    ELSE IF constraints.isNil \/ Len(constraints.list) = 0
         THEN Ok(IF Len(versions) = 0 THEN NilVersion ELSE versions[Len(versions)])
    ELSE LET lastGood == ScanLastGood(versions, constraints, 1, NilVersion)
         IN  IF lastGood = NilVersion THEN Ok(NilVersion) ELSE Ok(lastGood)

GetLatestVersionMatch(versions, constraints) ==
    IF Len(versions) = 0 THEN Err(ErrNoVersions)
    ELSE IF ~IsSortedFunc(versions) THEN Err(ErrNotSorted)
    ELSE IF constraints.isNil \/ Len(constraints.list) = 0
         THEN Ok(versions[Len(versions)])
    ELSE LET lastGood == ScanLastGood(versions, constraints, 1, NilVersion)
         IN  IF lastGood = NilVersion THEN Err(ErrNoMatch) ELSE Ok(lastGood)

C(op, v, si) == [op |-> op, v |-> v, si |-> si]

\* ------------------------------------------------------------------------
\* Strings: versions, constraints and their parsers
\* ------------------------------------------------------------------------
\* goversion.NewVersion on the strings the model uses: the parsed segments,
\* or a nil version when the string is no version.  "v1.5.0" and "1.5.0" parse to the
\* same version; "1.5.0-beta.1" is a prerelease of it.
NewVersion(s) ==
    CASE s = "0.9.0"  -> <<0, 9, 0>>
      [] s = "1.0.0"  -> <<1, 0, 0>>
      [] s = "1.5.0"  -> <<1, 5, 0>>
      [] s = "v1.5.0" -> <<1, 5, 0>>
      [] s = "1.5.0-beta.1" -> <<1, 5, 0, "beta.1">>
      [] s = "2.0.0"  -> <<2, 0, 0>>
      [] OTHER        -> NilVersion

\* goversion.NewConstraint on the strings the model uses: the constraint set,
\* or an error and nil when the string does not parse ("" and free text do not).
NewConstraint(s) ==
    CASE s = ">=1.0.0,<2.0.0" ->
             [err |-> "", c |-> Constraints(<< C(">=", <<1, 0, 0>>, 3), C("<", <<2, 0, 0>>, 3) >>)]
      [] s = "<0.9.0" ->
             [err |-> "", c |-> Constraints(<< C("<", <<0, 9, 0>>, 3) >>)]
      [] OTHER ->
             [err |-> "Malformed constraint", c |-> NilConstraints]

\* (*Version).String(): the canonical text, without any "v" prefix.
VersionString(v) ==
    ToString(v[1]) \o "." \o ToString(v[2]) \o "." \o ToString(v[3])
        \o (IF Len(v) > 3 THEN "-" \o v[4] ELSE "")

\* fixedVersion accepting only the canonical text of a version.
fixedVersion_Canonical(version) ==
    /\ NewVersion(version) # NilVersion
    /\ VersionString(NewVersion(version)) = version

\* Request.fixedVersion
fixedVersion(version) == NewVersion(version) # NilVersion

\* ------------------------------------------------------------------------
\* Environment: the registry and the provider binary
\* ------------------------------------------------------------------------
\* Body of the registry's versions response, in the order the registry sends it.
RegistryVersions == << "2.0.0", "1.0.0", "1.5.0" >>

\* The schema the provider binary reports.
ProviderSchema == [ResourceSchemas |-> {"res_a"}]

\* Request.Version values the callers pass (one namespace and name).
RequestVersions == { "1.5.0", ">=1.0.0,<2.0.0", "" }

\* Resource names the callers ask for.
Names == { "res_a", "res_missing" }

\* ------------------------------------------------------------------------
\* Bounds of the Server model
\* ------------------------------------------------------------------------
NumThreads == 2     \* goroutines calling the Server, one public call each
MaxFaults == 1      \* failures of external collaborators in one run

Threads == 1..NumThreads

\* ------------------------------------------------------------------------
\* Helpers
\* ------------------------------------------------------------------------
NoErr == << >>

\* slices.SortFunc(versions, Compare): insertion into an ascending list.
RECURSIVE Insert(_, _)
Insert(v, sorted) ==
    IF sorted = << >> THEN << v >>
    ELSE IF Compare(v, Head(sorted)) < 0 THEN << v >> \o sorted
    ELSE << Head(sorted) >> \o Insert(v, Tail(sorted))

\* slices.SortFunc left out: the versions in the order of the response.
SortFunc_ResponseOrder(vs) == vs

\* The sort with the comparison turned round: the newest version first.
RECURSIVE SortFunc_Descending(_)
SortFunc_Descending(vs) ==
    IF vs = << >> THEN << >>
    ELSE LET i == CHOOSE i \in 1..Len(vs) : \A j \in 1..Len(vs) : Compare(vs[i], vs[j]) >= 0
         IN  << vs[i] >> \o SortFunc_Descending(SubSeq(vs, 1, i - 1) \o SubSeq(vs, i + 1, Len(vs)))

RECURSIVE SortFunc(_)
SortFunc(vs) == IF vs = << >> THEN << >> ELSE Insert(Head(vs), SortFunc(Tail(vs)))

\* An HTTP exchange that ended with no response, and the only status the
\* Server goes on with.
NoResponse == 0
StatusOK == 200
StatusNotFound == 404

\* What a call keeps of the status of its registry request: the status that
\* is not 200, which ends the call.
Refused(status) == IF status = StatusOK THEN NoResponse ELSE status

\* The statuses other than 200 the registry answers in the runs of the
\* Server: not found or a server error for the download metadata, and for
\* the versions no other (a versions request that fails, fails to be sent).
DefaultStatuses == [download |-> {404, 500}, versions |-> {}]

\* The registry body parsed version by version (every string of the body parses).
ParsedRegistryVersions == [i \in 1..Len(registry) |-> NewVersion(registry[i])]

IdleThread ==
    [pc |-> "idle", op |-> Nil, arg |-> Nil, name |-> Nil, gsReq |-> Nil,
     getReq |-> Nil, ret |-> << >>, client |-> FALSE, hit |-> FALSE, fix |-> Nil,
     status |-> 0,
     res |-> [op |-> Nil, arg |-> Nil, name |-> Nil, hit |-> FALSE, fix |-> Nil,
              status |-> 0, err |-> << >>, val |-> Nil]]

\* A public call returns: the goroutine is done, and res carries what it
\* returned (with the call's arguments) to Step.
Finish(r, err, val) ==
    [IdleThread EXCEPT !.pc = "done", !.res = [op |-> r.op, arg |-> r.arg, name |-> r.name,
                                hit |-> r.hit, fix |-> r.fix, status |-> r.status,
                                err |-> err, val |-> val]]

\* An accessor returns.
RetAccessor(r, err, val) == Finish(r, err, val)

\* getSchema returns to the accessor that called it (server.go:282-288).
RetGetSchema(r, err) ==
    IF err # NoErr
    THEN RetAccessor(r, << "failed to read provider schema" >> \o err, Nil)
    ELSE [r EXCEPT !.pc = "acc_rlock2", !.gsReq = Nil, !.client = FALSE, !.ret = Tail(@)]

\* Get returns: to its public caller, or into getSchema (server.go:531-533).
RetGet(r, err) ==
    IF Head(r.ret) = "top" THEN Finish(r, err, Nil)
    ELSE LET q == [r EXCEPT !.getReq = Nil, !.ret = Tail(@)]
         IN  IF err # NoErr
             THEN RetGetSchema(q, << "failed to download provider" >> \o err)
             ELSE [q EXCEPT !.pc = "gs_rlock2"]

\* latestVersionOf passing the constraint's parse error on to its caller.
latestVersionOf_Strict(version, vers, err) ==
    IF err # NoErr THEN [err |-> << "failed to get available versions" >> \o err, v |-> ""]
    ELSE IF Len(vers) = 0 THEN [err |-> << "no available versions found for provider" >>, v |-> ""]
    ELSE LET c == NewConstraint(version)
             latest == GetLatestVersionMatch(vers, c.c)
         IN  IF c.err # "" THEN [err |-> << c.err >>, v |-> ""]
             ELSE IF latest.err # ""
             THEN [err |-> << "failed to get latest version", latest.err >>, v |-> ""]
             ELSE [err |-> NoErr, v |-> VersionString(latest.v)]

\* latestVersionOf dropping the parsed constraints.
latestVersionOf_NoConstraints(version, vers, err) ==
    IF err # NoErr THEN [err |-> << "failed to get available versions" >> \o err, v |-> ""]
    ELSE IF Len(vers) = 0 THEN [err |-> << "no available versions found for provider" >>, v |-> ""]
    ELSE LET latest == GetLatestVersionMatch(vers, NilConstraints)
         IN  IF latest.err # ""
             THEN [err |-> << "failed to get latest version", latest.err >>, v |-> ""]
             ELSE [err |-> NoErr, v |-> VersionString(latest.v)]

\* Server.latestVersionOf after GetAvailableVersions returned (vers, err).
latestVersionOf(version, vers, err) ==
    IF err # NoErr THEN [err |-> << "failed to get available versions" >> \o err, v |-> ""]
    ELSE IF Len(vers) = 0 THEN [err |-> << "no available versions found for provider" >>, v |-> ""]
    ELSE LET c == NewConstraint(version)
             constraints == IF c.err = "" THEN c.c ELSE NilConstraints
             latest == GetLatestVersionMatch(vers, constraints)
         IN  IF latest.err # ""
             THEN [err |-> << "failed to get latest version", latest.err >>, v |-> ""]
             ELSE [err |-> NoErr, v |-> VersionString(latest.v)]

\* fixVersion handing the request back as it came.
fixVersion_KeepRequest(version, vers, err) == [err |-> NoErr, v |-> version]

\* Request.fixVersion, given what latestVersionOf's GetAvailableVersions
\* returns (vers, err) when it is called: the Version of the Request returned
\* ("" is the zero Request) and the error.
fixVersion(version, vers, err) ==
    IF fixedVersion(version) THEN [err |-> NoErr, v |-> version]
    ELSE LET lv == latestVersionOf(version, vers, err)
         IN  IF lv.err # NoErr
             THEN [err |-> << "failed to get latest version" >> \o lv.err, v |-> ""]
             ELSE [err |-> NoErr, v |-> lv.v]

\* GetAvailableVersions returns: to its public caller, or into fixVersion
\* called from Get (server.go:149) or from getSchema (server.go:526), which
\* assign fixVersion's results to request and err.  th[t].fix records the
\* Version fixVersion returned.
RetVersions(r, vers, err) ==
    IF Head(r.ret) = "top" THEN Finish(r, err, vers)
    ELSE LET version == IF Head(r.ret) = "Get" THEN r.getReq ELSE r.gsReq
             fx == fixVersion(version, vers, err)
             q == [r EXCEPT !.ret = Tail(@), !.fix = fx.v, !.status = NoResponse]
         IN  IF Head(r.ret) = "Get"
             THEN IF fx.err # NoErr THEN RetGet([q EXCEPT !.getReq = fx.v], fx.err)
                  ELSE [q EXCEPT !.getReq = fx.v, !.pc = "get_lock"]
             ELSE IF fx.err # NoErr THEN RetGetSchema([q EXCEPT !.gsReq = fx.v], fx.err)
                  ELSE [q EXCEPT !.gsReq = fx.v, !.getReq = fx.v, !.pc = "get_rlock",
                                 !.ret = << "getSchema" >> \o @]

\* sync.RWMutex
CanRLock == mu.writer = NoThread
\* Lock going ahead while readers hold the lock.
CanLock_IgnoreReaders == mu.writer = NoThread
CanLock == mu.writer = NoThread /\ mu.readers = {}
RLocked(t) == [mu EXCEPT !.readers = @ \cup {t}]
\* RUnlock leaving the read lock held.
RUnlocked_Leak(t) == mu
RUnlocked(t) == [mu EXCEPT !.readers = @ \ {t}]
Locked(t) == [mu EXCEPT !.writer = t]
Unlocked(t) == [mu EXCEPT !.writer = NoThread]

\* A panic ends the whole process: no goroutine runs after it.
Running == ~crashed

\* Goroutine t moves on to r; when that ends its public call, the result is
\* handed to the caller and the goroutine keeps nothing.
Step(t, r) ==
    /\ th' = [th EXCEPT ![t] = IF r.pc = "done" THEN [IdleThread EXCEPT !.pc = "done"] ELSE r]
    /\ results' = IF r.pc = "done" THEN results \cup {r.res} ELSE results

\* An external call ends with outcome; its failures are counted and bounded.
Fault(outcome) ==
    /\ (outcome # "ok") => faults < MaxFaults
    /\ faults' = IF outcome = "ok" THEN faults ELSE faults + 1

\* ------------------------------------------------------------------------
\* Server.GetAvailableVersions
\* ------------------------------------------------------------------------
\* s.mu.RLock()
AvRLock(t) ==
    /\ Running /\ th[t].pc = "av_rlock" /\ CanRLock
    /\ mu' = RLocked(t)
    /\ Step(t, [th[t] EXCEPT !.pc = "av_check"])
    /\ UNCHANGED <<dlc, sc, versionsc, tmpDir, tmpExists, cleanups, extractDirs, unpacked,
                   downloadCalls,
                   schemaCalls, procs, faults, crashed, resolverVars, envVars, typeVars, clientVars>>

\* if v, ok := s.versionsc[req]; ok { RUnlock; return v, nil }; RUnlock; then,
\* with no lock held, the registry request and the decoding, parsing and
\* sorting of the versions (steps local to the goroutine).
AvCheck(t) ==
    /\ Running /\ th[t].pc = "av_check"
    /\ mu' = RUnlocked(t)
    /\ IF "versions" \in DOMAIN versionsc
       THEN /\ \E r \in { RetVersions(th[t], versionsc["versions"], NoErr) } : Step(t, r)
            /\ faults' = faults
       ELSE \E status \in {NoResponse, StatusOK} \cup registryStatuses.versions :
            \E outcome \in IF status # StatusOK THEN {"failed to get versions"}
                            ELSE {"ok", "failed to decode versions response"} :
               LET unparsed == { i \in 1..Len(registry) : NewVersion(registry[i]) = NilVersion }
                   r == [th[t] EXCEPT !.status = Refused(status)]
               IN  /\ Fault(outcome)
                   /\ \E q \in { IF outcome # "ok" THEN RetVersions(r, Nil, << outcome >>)
                                  ELSE IF unparsed # {}
                                  THEN RetVersions(r, Nil, << "failed to parse version" >>)
                                  ELSE [r EXCEPT !.pc = "av_lock"] } : Step(t, q)
    /\ UNCHANGED <<dlc, sc, versionsc, tmpDir, tmpExists, cleanups, extractDirs, unpacked,
                   downloadCalls,
                   schemaCalls, procs, crashed, resolverVars, envVars, typeVars, clientVars>>

\* s.mu.Lock()
AvLock(t) ==
    /\ Running /\ th[t].pc = "av_lock" /\ CanLock
    /\ mu' = Locked(t)
    /\ Step(t, [th[t] EXCEPT !.pc = "av_store"])
    /\ UNCHANGED <<dlc, sc, versionsc, tmpDir, tmpExists, cleanups, extractDirs, unpacked,
                   downloadCalls,
                   schemaCalls, procs, faults, crashed, resolverVars, envVars, typeVars, clientVars>>

\* s.versionsc[req] = versions; return versions, nil (deferred Unlock)
AvStore(t) ==
    /\ Running /\ th[t].pc = "av_store"
    /\ \E versions \in { SortFunc(ParsedRegistryVersions) } :
           /\ versionsc' = [x \in {"versions"} |-> versions]
           /\ \E r \in { RetVersions(th[t], versions, NoErr) } : Step(t, r)
    /\ mu' = Unlocked(t)
    /\ UNCHANGED <<dlc, sc, tmpDir, tmpExists, cleanups, extractDirs, unpacked,
                   downloadCalls,
                   schemaCalls, procs, faults, crashed, resolverVars, envVars, typeVars, clientVars>>

\* ------------------------------------------------------------------------
\* Server.Get
\* ------------------------------------------------------------------------
DownloadSection == {"get_download"}

\* s.mu.RLock()
GetRLock(t) ==
    /\ Running /\ th[t].pc = "get_rlock" /\ CanRLock
    /\ mu' = RLocked(t)
    /\ Step(t, [th[t] EXCEPT !.pc = "get_check"])
    /\ UNCHANGED <<dlc, sc, versionsc, tmpDir, tmpExists, cleanups, extractDirs, unpacked,
                   downloadCalls,
                   schemaCalls, procs, faults, crashed, resolverVars, envVars, typeVars, clientVars>>

\* The first cache check, then request.fixVersion(s) when it misses.
GetCheck(t) ==
    /\ Running /\ th[t].pc = "get_check"
    /\ mu' = RUnlocked(t)
    /\ Step(t,
                IF th[t].getReq \in DOMAIN dlc THEN RetGet(th[t], NoErr)
                ELSE IF fixedVersion(th[t].getReq)
                     THEN [th[t] EXCEPT !.pc = "get_lock",
                                        !.fix = fixVersion(th[t].getReq, << >>, NoErr).v]
                ELSE [th[t] EXCEPT !.pc = "av_rlock", !.ret = << "Get" >> \o @])
    /\ UNCHANGED <<dlc, sc, versionsc, tmpDir, tmpExists, cleanups, extractDirs, unpacked,
                   downloadCalls,
                   schemaCalls, procs, faults, crashed, resolverVars, envVars, typeVars, clientVars>>

\* Get going on to the download without taking the write lock.
GetLock_NoLock(t) ==
    /\ Running /\ th[t].pc = "get_lock"
    /\ Step(t, [th[t] EXCEPT !.pc = "get_download"])
    /\ UNCHANGED <<dlc, sc, versionsc, mu, tmpDir, tmpExists, cleanups, extractDirs, unpacked,
                   downloadCalls,
                   schemaCalls, procs, faults, crashed, resolverVars, envVars, typeVars, clientVars>>

\* s.mu.Lock(); defer s.mu.Unlock()
GetLock(t) ==
    /\ Running /\ th[t].pc = "get_lock" /\ CanLock
    /\ mu' = Locked(t)
    /\ Step(t, [th[t] EXCEPT !.pc = "get_download"])
    /\ UNCHANGED <<dlc, sc, versionsc, tmpDir, tmpExists, cleanups, extractDirs, unpacked,
                   downloadCalls,
                   schemaCalls, procs, faults, crashed, resolverVars, envVars, typeVars, clientVars>>

\* Everything Get does under the write lock.  The registry download-metadata
\* request and the decoding of its answer; the temporary directory and the
\* download of the archive into its file; then os.Mkdir(extractDir), unzip,
\* the walk that stores the executable's path in the download cache, and the
\* final check.  The registry names the archive after the request's version,
\* so extractDir is one directory per version, and os.Mkdir fails when it
\* exists already.  The deferred Unlock runs on every return.
\* The sentinel errors of server.go.
ErrPluginNotFound == "plugin not found"
ErrPluginApi == "plugin API error"

RegistryFailures ==
    { "failed to send HTTP request to registry API", ErrPluginNotFound,
      ErrPluginApi, "failed to decode plugin API response" }

\* The status tests of Get with the 404 test left out.
registryError_NoNotFound(status) ==
    IF status # StatusOK THEN ErrPluginApi
    ELSE "ok"

\* "if resp.StatusCode == http.StatusNotFound { ErrPluginNotFound };
\* if resp.StatusCode != http.StatusOK { ErrPluginApi }"
registryError(status) ==
    IF status = StatusNotFound THEN ErrPluginNotFound
    ELSE IF status # StatusOK THEN ErrPluginApi
    ELSE "ok"

DownloadFailures ==
    { "failed to create temporary directory", "download URL is empty",
      "failed to download plugin" }

ExtractFailures ==
    { "failed to unzip plugin file", "provider file not found in extracted directory" }

\* The names of the entries of an extraction directory, each as the pieces
\* it is made of, in the order fs.WalkDir visits them (ReadDir sorts by
\* file name).
EntryNames ==
    << << "LICENSE" >>,
       << "terraform-provider-", "aws" >>,
       << "terraform-provider-", "aws", "_v5.0.0_x5" >>,
       << "terraform-provider-", "azurerm" >> >>

\* providerFileNamePrefix + request.Name
wantProviderFileName == << "terraform-provider-", "aws" >>

\* strings.HasPrefix
HasPrefix(name, prefix) ==
    Len(name) >= Len(prefix) /\ SubSeq(name, 1, Len(prefix)) = prefix

\* What an extraction directory holds: each name is absent, a file, or a
\* directory.
Listings == [1..Len(EntryNames) -> {"absent", "file", "dir"}]

EmptyListing == [i \in 1..Len(EntryNames) |-> "absent"]

\* The walk found no entry.
NotFound == << >>

\* The walk without the test for directories: a directory is matched by its
\* name like a file.
WalkDir_Descending(listing) ==
    LET m == { i \in 1..Len(EntryNames) :
                 listing[i] # "absent" /\ HasPrefix(EntryNames[i], wantProviderFileName) }
    IN  IF m = {} THEN NotFound
        ELSE << EntryNames[CHOOSE i \in m : \A j \in m : i <= j] >>

\* The callback of fs.WalkDir from entry i on: a directory other than the
\* root returns fs.SkipDir, a name without the prefix returns nil, and the
\* first name with the prefix is stored, as the path below the extraction
\* directory, with fs.SkipAll.  The root "." is a directory named ".", which
\* passes the first test and fails the second.
RECURSIVE WalkFrom(_, _)
WalkFrom(listing, i) ==
    IF i > Len(EntryNames) THEN NotFound
    ELSE IF listing[i] = "absent" THEN WalkFrom(listing, i + 1)
    ELSE IF listing[i] = "dir" THEN WalkFrom(listing, i + 1)
    ELSE IF ~HasPrefix(EntryNames[i], wantProviderFileName) THEN WalkFrom(listing, i + 1)
    ELSE << EntryNames[i] >>

\* fs.WalkDir(os.DirFS(extractDir), ".", ...): the path it stores.
WalkDir(listing) == WalkFrom(listing, 1)

\* The download cache with an entry for the request whatever the walk
\* found.
StorePath_Always(cache, request, listing) ==
    [k \in DOMAIN cache \cup {request} |->
        IF k = request THEN WalkDir(listing) ELSE cache[k]]

\* The download cache made anew by every walk that finds the executable.
StorePath_Replace(cache, request, listing) ==
    IF WalkDir(listing) = NotFound THEN cache
    ELSE [k \in {request} |-> WalkDir(listing)]

\* The download cache after the walk over listing: the callback assigns
\* s.dlc[request] at the entry it stops at, and not at all without one.
StorePath(cache, request, listing) ==
    IF WalkDir(listing) = NotFound THEN cache
    ELSE [k \in DOMAIN cache \cup {request} |->
             IF k = request THEN WalkDir(listing) ELSE cache[k]]

\* The archives of the registry by default: one with the executable and a
\* licence, one with nothing of use.
DefaultArchives ==
    { [EmptyListing EXCEPT ![1] = "file", ![3] = "file"], [EmptyListing EXCEPT ![1] = "file"] }

GetDownload(t) ==
    /\ Running /\ th[t].pc = "get_download"
    /\ downloadCalls' = downloadCalls + 1
    /\ LET request == th[t].getReq
           \* s.tmpDir names a directory that has been removed
           gone == tmpDir # "" /\ ~tmpExists
       IN  \E status \in {NoResponse, StatusOK} \cup registryStatuses.download :
           \E outcome \in
                 IF status = NoResponse THEN {"failed to send HTTP request to registry API"}
                 ELSE IF registryError(status) # "ok" THEN {registryError(status)}
                 ELSE {"ok", "failed to decode plugin API response"}
                         \cup DownloadFailures \cup ExtractFailures :
              LET early == outcome \in RegistryFailures \cup DownloadFailures
                  \* os.MkdirTemp is called, and succeeds
                  mkTemp == tmpDir = "" /\ outcome \notin RegistryFailures
                                        \cup {"failed to create temporary directory"}
                  \* os.Create(pluginFilePath) fails in a directory that is gone
                  nofile == ~early /\ gone
                  exists == ~early /\ ~gone /\ request \in extractDirs
                  \* what unzip leaves in the new extraction directory
                  listings == IF early \/ nofile \/ exists
                                    \/ outcome = "failed to unzip plugin file"
                              THEN {EmptyListing}
                              ELSE { a \in archives :
                                       (WalkDir(a) # NotFound) <=> (outcome = "ok") }
              IN  \E listing \in listings :
                  /\ outcome = "failed to create temporary directory" => tmpDir = ""
                  /\ IF exists \/ nofile THEN outcome = "ok" /\ faults' = faults ELSE Fault(outcome)
                  /\ tmpDir' = IF mkTemp THEN "tfpluginschema-" ELSE tmpDir
                  /\ tmpExists' = IF mkTemp THEN TRUE ELSE tmpExists
                  /\ extractDirs' = IF early \/ nofile THEN extractDirs ELSE extractDirs \cup {request}
                  /\ unpacked' = IF early \/ nofile \/ exists THEN unpacked
                                 ELSE [k \in DOMAIN unpacked \cup {request} |->
                                          IF k = request THEN listing ELSE unpacked[k]]
                  /\ dlc' = IF early \/ nofile \/ exists
                                  \/ outcome = "failed to unzip plugin file"
                            THEN dlc
                            ELSE StorePath(dlc, request, listing)
                  /\ Step(t, RetGet([th[t] EXCEPT !.status = Refused(status)],
                                     IF nofile THEN << "failed to create plugin file" >>
                                     ELSE IF exists THEN << "failed to create extraction directory" >>
                                     ELSE IF outcome = "ok" THEN NoErr
                                     ELSE << outcome >>))
    /\ mu' = Unlocked(t)
    /\ UNCHANGED <<sc, versionsc, schemaCalls, procs, cleanups, crashed, resolverVars, envVars, typeVars, clientVars>>

\* ------------------------------------------------------------------------
\* Server.getSchema
\* ------------------------------------------------------------------------
\* plugin.Client.Kill, the closeFunc newGrpcClient sets: it ends a running
\* subprocess and does nothing to one that is gone.
Kill(p) == IF p = "running" THEN "killed" ELSE p

\* newGrpcClient's failures once client.Client() has started the subprocess:
\* the connection, the dispense, and a plugin of neither generation.
LaunchFailures == { "failed to create RPC client", "failed to dispense provider",
                    "plugin returned unexpected type" }

\* newGrpcClient: the state of the subprocess it started when it returns.
\* Every failure calls client.Kill() before the return.
newGrpcClient(outcome) == IF outcome = "ok" THEN "running" ELSE Kill("running")

\* What client.schema() and the nil check after it can answer besides a
\* schema, by default.
DefaultSchemaFaults == { "failed to get provider schema" }

\* getSchema returning without closing its client.
deferredClose_Leak(t) == procs

\* defer client.close(): closeFunc is client.Kill, which ends the subprocess
\* of the goroutine's client.
deferredClose(t) == procs \ {t}

\* s.mu.RLock()
GsRLock(t) ==
    /\ Running /\ th[t].pc = "gs_rlock" /\ CanRLock
    /\ mu' = RLocked(t)
    /\ Step(t, [th[t] EXCEPT !.pc = "gs_check"])
    /\ UNCHANGED <<dlc, sc, versionsc, tmpDir, tmpExists, cleanups, extractDirs, unpacked,
                   downloadCalls,
                   schemaCalls, procs, faults, crashed, resolverVars, envVars, typeVars, clientVars>>

\* The schema-cache check, then request.fixVersion(s) and s.Get(request).
GsCheck(t) ==
    /\ Running /\ th[t].pc = "gs_check"
    /\ mu' = RUnlocked(t)
    /\ Step(t,
                IF th[t].gsReq \in DOMAIN sc THEN RetGetSchema(th[t], NoErr)
                ELSE IF fixedVersion(th[t].gsReq)
                     THEN [th[t] EXCEPT !.pc = "get_rlock",
                                    !.fix = fixVersion(th[t].gsReq, << >>, NoErr).v,
                                    !.gsReq = fixVersion(th[t].gsReq, << >>, NoErr).v,
                                    !.getReq = fixVersion(th[t].gsReq, << >>, NoErr).v,
                                    !.ret = << "getSchema" >> \o @]
                ELSE [th[t] EXCEPT !.pc = "av_rlock", !.ret = << "getSchemaFix" >> \o @])
    /\ UNCHANGED <<dlc, sc, versionsc, tmpDir, tmpExists, cleanups, extractDirs, unpacked,
                   downloadCalls,
                   schemaCalls, procs, faults, crashed, resolverVars, envVars, typeVars, clientVars>>

\* s.mu.RLock() before reading the provider path
GsRLock2(t) ==
    /\ Running /\ th[t].pc = "gs_rlock2" /\ CanRLock
    /\ mu' = RLocked(t)
    /\ Step(t, [th[t] EXCEPT !.pc = "gs_path"])
    /\ UNCHANGED <<dlc, sc, versionsc, tmpDir, tmpExists, cleanups, extractDirs, unpacked,
                   downloadCalls,
                   schemaCalls, procs, faults, crashed, resolverVars, envVars, typeVars, clientVars>>

\* providerPath, exists := s.dlc[request]; RUnlock; then, with no lock held,
\* newGrpcClient(providerPath): the subprocess is launched, and on failure
\* it is killed before newGrpcClient returns.  An executable that has been
\* removed cannot be launched.
GsPath(t) ==
    /\ Running /\ th[t].pc = "gs_path"
    /\ mu' = RUnlocked(t)
    /\ IF th[t].gsReq \in DOMAIN dlc /\ th[t].gsReq \notin extractDirs
       THEN /\ Step(t, RetGetSchema(th[t], << "failed to create gRPC client" >>))
            /\ UNCHANGED <<schemaCalls, procs, faults>>
       ELSE IF th[t].gsReq \in DOMAIN dlc
       THEN /\ schemaCalls' = schemaCalls + 1
            /\ \E outcome \in {"ok"} \cup LaunchFailures :
                  /\ Fault(outcome)
                  /\ procs' = IF newGrpcClient(outcome) = "running" THEN procs \cup {t}
                              ELSE procs
                  /\ Step(t, IF outcome = "ok"
                             THEN [th[t] EXCEPT !.pc = "gs_schema", !.client = TRUE]
                             ELSE RetGetSchema(th[t], << "failed to create gRPC client" >>))
       ELSE /\ Step(t, RetGetSchema(th[t], << "provider not found in cache" >>))
            /\ UNCHANGED <<schemaCalls, procs, faults>>
    /\ UNCHANGED <<dlc, sc, versionsc, tmpDir, tmpExists, cleanups, extractDirs, unpacked,
                   downloadCalls,
                   crashed, resolverVars, envVars, typeVars, clientVars>>

\* client.schema() and the nil check; on failure the deferred client.close()
\* runs.
GsSchema(t) ==
    /\ Running /\ th[t].pc = "gs_schema"
    /\ \E outcome \in {"ok"} \cup schemaFaults :
          /\ Fault(outcome)
          /\ procs' = IF outcome = "ok" THEN procs ELSE deferredClose(t)
          /\ Step(t,
                      IF outcome = "ok" THEN [th[t] EXCEPT !.pc = "gs_lock"]
                      ELSE RetGetSchema(th[t], << outcome >>))
    /\ UNCHANGED <<dlc, sc, versionsc, mu, tmpDir, tmpExists, cleanups, extractDirs, unpacked,
                   downloadCalls,
                   schemaCalls, crashed, resolverVars, envVars, typeVars, clientVars>>

\* s.mu.Lock() before caching the schema
GsLock(t) ==
    /\ Running /\ th[t].pc = "gs_lock" /\ CanLock
    /\ mu' = Locked(t)
    /\ Step(t, [th[t] EXCEPT !.pc = "gs_store"])
    /\ UNCHANGED <<dlc, sc, versionsc, tmpDir, tmpExists, cleanups, extractDirs, unpacked,
                   downloadCalls,
                   schemaCalls, procs, faults, crashed, resolverVars, envVars, typeVars, clientVars>>

\* s.sc[request] = providerSchema; the deferred Unlock and client.close().
GsStore(t) ==
    /\ Running /\ th[t].pc = "gs_store"
    /\ sc' = [k \in DOMAIN sc \cup {th[t].gsReq} |->
                 IF k = th[t].gsReq THEN ProviderSchema ELSE sc[k]]
    /\ mu' = Unlocked(t)
    /\ procs' = deferredClose(t)
    /\ Step(t, RetGetSchema(th[t], NoErr))
    /\ UNCHANGED <<dlc, versionsc, tmpDir, tmpExists, cleanups, extractDirs, unpacked,
                   downloadCalls,
                   schemaCalls, faults, crashed, resolverVars, envVars, typeVars, clientVars>>

\* ------------------------------------------------------------------------
\* The accessors (GetResourceSchema and the others built the same way)
\* ------------------------------------------------------------------------
\* schemaResp.ResourceSchemas[resource] on the schema the accessor holds.
Lookup(r, resource, schemaResp) ==
    IF resource \in schemaResp.ResourceSchemas
    THEN RetAccessor([r EXCEPT !.name = resource], NoErr, resource)
    ELSE RetAccessor([r EXCEPT !.name = resource], << "resource schema not found" >>, Nil)

\* s.mu.RLock()
AccRLock(t) ==
    /\ Running /\ th[t].pc = "acc_rlock" /\ CanRLock
    /\ mu' = RLocked(t)
    /\ Step(t, [th[t] EXCEPT !.pc = "acc_check"])
    /\ UNCHANGED <<dlc, sc, versionsc, tmpDir, tmpExists, cleanups, extractDirs, unpacked,
                   downloadCalls,
                   schemaCalls, procs, faults, crashed, resolverVars, envVars, typeVars, clientVars>>

\* schemaResp, ok := s.sc[request]; on a miss s.getSchema(request) is called.
\* The resource name is only read by the lookup, so it is drawn there.
AccCheck(t) ==
    /\ Running /\ th[t].pc = "acc_check"
    /\ mu' = RUnlocked(t)
    /\ IF th[t].arg \in DOMAIN sc
       THEN \E resource \in Names :
               Step(t, Lookup(th[t], resource, sc[th[t].arg]))
       ELSE Step(t, [th[t] EXCEPT !.pc = "gs_rlock", !.gsReq = th[t].arg,
                                                !.ret = << "accessor" >> \o @])
    /\ UNCHANGED <<dlc, sc, versionsc, tmpDir, tmpExists, cleanups, extractDirs, unpacked,
                   downloadCalls,
                   schemaCalls, procs, faults, crashed, resolverVars, envVars, typeVars, clientVars>>

\* s.mu.RLock() after getSchema succeeded
AccRLock2(t) ==
    /\ Running /\ th[t].pc = "acc_rlock2" /\ CanRLock
    /\ mu' = RLocked(t)
    /\ Step(t, [th[t] EXCEPT !.pc = "acc_read"])
    /\ UNCHANGED <<dlc, sc, versionsc, tmpDir, tmpExists, cleanups, extractDirs, unpacked,
                   downloadCalls,
                   schemaCalls, procs, faults, crashed, resolverVars, envVars, typeVars, clientVars>>

\* schemaResp = s.sc[request] under the caller's own request, then the
\* lookup in it: a missing entry reads as a nil pointer, and the field
\* access on it panics.
AccRead(t) ==
    /\ Running /\ th[t].pc = "acc_read"
    /\ mu' = RUnlocked(t)
    /\ IF th[t].arg \in DOMAIN sc
       THEN /\ \E resource \in Names :
                  Step(t, Lookup(th[t], resource, sc[th[t].arg]))
            /\ crashed' = crashed
       ELSE /\ Step(t, RetAccessor(th[t], << "panic: nil pointer dereference" >>, Nil))
            /\ crashed' = TRUE
    /\ UNCHANGED <<dlc, sc, versionsc, tmpDir, tmpExists, cleanups, extractDirs, unpacked,
                   downloadCalls,
                   schemaCalls, procs, faults, resolverVars, envVars, typeVars, clientVars>>

\* ------------------------------------------------------------------------
\* Server.Cleanup
\* ------------------------------------------------------------------------
MaxCleanups == 2    \* Cleanup() calls in one run

\* Cleanup panicking when there is a directory name but no directory.
Cleanup_FailsWhenGone ==
    /\ Running
    /\ cleanups < MaxCleanups
    /\ cleanups' = cleanups + 1
    /\ tmpExists' = FALSE
    /\ extractDirs' = IF tmpDir = "" THEN extractDirs ELSE {}
    /\ unpacked' = IF tmpDir = "" THEN unpacked ELSE << >>
    /\ crashed' = (tmpDir # "" /\ ~tmpExists)
    /\ results' = results \cup
          { [IdleThread.res EXCEPT !.op = "Cleanup", !.arg = tmpDir,
                !.val = IF tmpExists THEN "removed" ELSE "nothing to remove"] }
    /\ UNCHANGED <<dlc, sc, versionsc, mu, tmpDir, th, downloadCalls, schemaCalls, procs,
                   faults, resolverVars, envVars, typeVars, clientVars>>

\* os.RemoveAll(s.tmpDir): the directory and everything under it is removed;
\* for "" and for a directory that is gone nothing is done and no error is
\* returned (Cleanup drops the error in any case).  Cleanup takes no lock
\* and assigns no field of the Server.  results records what was removed.
Cleanup ==
    /\ Running
    /\ cleanups < MaxCleanups
    /\ cleanups' = cleanups + 1
    /\ tmpExists' = FALSE
    /\ extractDirs' = IF tmpDir = "" THEN extractDirs ELSE {}
    /\ unpacked' = IF tmpDir = "" THEN unpacked ELSE << >>
    /\ results' = results \cup
          { [IdleThread.res EXCEPT !.op = "Cleanup", !.arg = tmpDir,
                !.val = IF tmpExists THEN "removed" ELSE "nothing to remove"] }
    /\ UNCHANGED <<dlc, sc, versionsc, mu, tmpDir, th, downloadCalls, schemaCalls, procs,
                   faults, crashed, resolverVars, envVars, typeVars, clientVars>>

\* ------------------------------------------------------------------------
\* Public calls
\* ------------------------------------------------------------------------
\* The cache key a request resolves to once the registry's versions are known.
ResolvedVersion(version) ==
    IF fixedVersion(version) THEN version
    ELSE latestVersionOf(version, SortFunc(ParsedRegistryVersions), NoErr).v

\* th[t].hit records that the key the request resolves to was in the download
\* cache when Get was called.
CallGet(t) ==
    /\ Running /\ th[t].pc = "idle"
    /\ \E version \in requestVersions :
          Step(t,
                    [IdleThread EXCEPT !.pc = "get_rlock", !.op = "Get", !.arg = version,
                                       !.getReq = version, !.ret = << "top" >>,
                                       !.hit = ResolvedVersion(version) \in DOMAIN dlc])
    /\ UNCHANGED <<dlc, sc, versionsc, mu, tmpDir, tmpExists, cleanups, extractDirs, unpacked,
                   downloadCalls,
                   schemaCalls, procs, faults, crashed, resolverVars, envVars, typeVars, clientVars>>

CallAccessor(t) ==
    /\ Running /\ th[t].pc = "idle"
    /\ \E version \in requestVersions :
          Step(t,
                    [IdleThread EXCEPT !.pc = "acc_rlock", !.op = "GetResourceSchema",
                                       !.arg = version])
    /\ UNCHANGED <<dlc, sc, versionsc, mu, tmpDir, tmpExists, cleanups, extractDirs, unpacked,
                   downloadCalls,
                   schemaCalls, procs, faults, crashed, resolverVars, envVars, typeVars, clientVars>>

CallGetAvailableVersions(t) ==
    /\ Running /\ th[t].pc = "idle"
    /\ Step(t,
                 [IdleThread EXCEPT !.pc = "av_rlock", !.op = "GetAvailableVersions",
                                    !.ret = << "top" >>])
    /\ UNCHANGED <<dlc, sc, versionsc, mu, tmpDir, tmpExists, cleanups, extractDirs, unpacked,
                   downloadCalls,
                   schemaCalls, procs, faults, crashed, resolverVars, envVars, typeVars, clientVars>>

\* ------------------------------------------------------------------------
\* Type signatures and decodeCtyTypeFromJSONBytes
\* ------------------------------------------------------------------------
MaxTypeDepth == 3   \* deepest nesting of arrays and objects in a type signature

\* The type-signature bytes, as the JSON document they spell: no bytes at
\* all, text that is not JSON, a JSON number, string, array or object.
JEmpty == [j |-> "empty"]
JInvalid == [j |-> "invalid"]
JNum == [j |-> "number"]
JStr(s) == [j |-> "string", s |-> s]
JArr(items) == [j |-> "array", items |-> items]
JObj(m) == [j |-> "object", m |-> m]

\* cty.NilType, and a cty.Type with no error / an error with no type.
NilType == [k |-> "nil"]
TyOk(ty) == [ty |-> ty, err |-> NoErr]
TyErr(msg) == [ty |-> NilType, err |-> << msg >>]

\* cty.String, cty.Number, cty.Bool by the name of their encoding.
Primitive(name) == [k |-> name]

\* cty.DynamicPseudoType
DynamicPseudoType == [k |-> "dynamic"]

\* cty.List(ety), cty.Set(ety), cty.Map(ety)
Collection(kind, ety) == [k |-> kind, ety |-> ety]

\* cty.Object(attrs)
Object(attrs) == [k |-> "object", attrs |-> attrs]

\* The bare strings ctyjson.UnmarshalType reads as a primitive with every
\* name read as string.
strictPrimitive_AllStrings(s) ==
    IF s \in {"bool", "number", "string"} THEN TyOk(Primitive("string"))
    ELSE IF s = "dynamic" THEN TyOk(DynamicPseudoType)
    ELSE TyErr("invalid primitive type name")

\* ctyjson.UnmarshalType on a bare string: the three primitives and
\* "dynamic".
strictPrimitive(s) ==
    IF s \in {"bool", "number", "string"} THEN TyOk(Primitive(s))
    ELSE IF s = "dynamic" THEN TyOk(DynamicPseudoType)
    ELSE TyErr("invalid primitive type name")

\* ctyjson.UnmarshalType, the strict path: a bare string, or an array whose
\* first item names the kind, ["list"|"set"|"map", element] or
\* ["object", {name: type}], nested to any depth.
RECURSIVE UnmarshalType(_)
UnmarshalType(doc) ==
    IF doc.j = "string" THEN strictPrimitive(doc.s)
    ELSE IF doc.j # "array" THEN TyErr("invalid type description")
    ELSE LET items == doc.items
         IN  IF items = << >> \/ items[1].j # "string"
             THEN TyErr("invalid complex type kind name")
             ELSE IF items[1].s \in {"list", "set", "map"}
             THEN IF Len(items) < 2 THEN TyErr("unexpected end of type description")
                  ELSE LET e == UnmarshalType(items[2])
                       IN  IF e.err # NoErr THEN e
                           ELSE IF Len(items) > 2
                           THEN TyErr("unexpected extra data in type description")
                           ELSE TyOk(Collection(items[1].s, e.ty))
             ELSE IF items[1].s = "object"
             THEN IF Len(items) # 2 \/ items[2].j # "object"
                  THEN TyErr("invalid object type description")
                  ELSE LET m == items[2].m
                           bad == { n \in DOMAIN m : UnmarshalType(m[n]).err # NoErr }
                       IN  IF bad # {} THEN UnmarshalType(m[CHOOSE n \in bad : TRUE])
                           ELSE TyOk(Object([n \in DOMAIN m |-> UnmarshalType(m[n]).ty]))
             ELSE TyErr("invalid complex type kind name")

\* primitiveFromString with a default branch that answers cty.String.
primitiveFromString_DefaultString(s) ==
    IF s \in {"string", "number", "bool"} THEN TyOk(Primitive(s))
    ELSE TyOk(Primitive("string"))

\* primitiveFromString
primitiveFromString(s) ==
    IF s \in {"string", "number", "bool"} THEN TyOk(Primitive(s))
    ELSE TyErr("unsupported primitive type")

\* The fallback without its len(v) == 1 test: it reads one key of an object
\* of several.
fallback_NoLenCheck(raw) ==
    IF raw.j = "string" THEN primitiveFromString(raw.s)
    ELSE IF raw.j = "object" /\ Cardinality(DOMAIN raw.m) >= 1
    THEN LET k == CHOOSE key \in DOMAIN raw.m : TRUE
             inner == raw.m[k]
         IN  IF k \in {"list", "set", "map"} /\ inner.j = "string"
             THEN LET et == primitiveFromString(inner.s)
                  IN  IF et.err # NoErr THEN et ELSE TyOk(Collection(k, et.ty))
             ELSE IF k = "object" /\ inner.j = "object"
             THEN LET obj == inner.m
                      notStr == { n \in DOMAIN obj : obj[n].j # "string" }
                      badPrim == { n \in DOMAIN obj \ notStr :
                                      primitiveFromString(obj[n].s).err # NoErr }
                  IN  IF notStr # {} THEN TyErr("invalid object attribute type")
                      ELSE IF badPrim # {}
                      THEN primitiveFromString(obj[CHOOSE n \in badPrim : TRUE].s)
                      ELSE TyOk(Object([n \in DOMAIN obj |-> primitiveFromString(obj[n].s).ty]))
             ELSE TyErr("invalid complex type description")
    ELSE TyErr("invalid complex type description")

\* The fallback of decodeCtyTypeFromJSONBytes, on the value json.Unmarshal
\* gave: a string, or an object of one key, "list", "set" or "map" with a
\* primitive's name, or "object" with an object of primitives' names.  The
\* inputs of the model have at most one attribute that does not decode, so
\* the order in which Go ranges over obj does not show.
fallback(raw) ==
    IF raw.j = "string" THEN primitiveFromString(raw.s)
    ELSE IF raw.j = "object" /\ Cardinality(DOMAIN raw.m) = 1
    THEN LET k == CHOOSE key \in DOMAIN raw.m : TRUE
             inner == raw.m[k]
         IN  IF k \in {"list", "set", "map"} /\ inner.j = "string"
             THEN LET et == primitiveFromString(inner.s)
                  IN  IF et.err # NoErr THEN et ELSE TyOk(Collection(k, et.ty))
             ELSE IF k = "object" /\ inner.j = "object"
             THEN LET obj == inner.m
                      notStr == { n \in DOMAIN obj : obj[n].j # "string" }
                      badPrim == { n \in DOMAIN obj \ notStr :
                                      primitiveFromString(obj[n].s).err # NoErr }
                  IN  IF notStr # {} THEN TyErr("invalid object attribute type")
                      ELSE IF badPrim # {}
                      THEN primitiveFromString(obj[CHOOSE n \in badPrim : TRUE].s)
                      ELSE TyOk(Object([n \in DOMAIN obj |-> primitiveFromString(obj[n].s).ty]))
             ELSE TyErr("invalid complex type description")
    ELSE TyErr("invalid complex type description")

\* decodeCtyTypeFromJSONBytes: no bytes fail; then the strict path; then,
\* when json.Unmarshal accepts the bytes, the fallback.
decodeCtyTypeFromJSONBytes(buf) ==
    IF buf.j = "empty" THEN TyErr("empty type bytes")
    ELSE LET strict == UnmarshalType(buf)
         IN  IF strict.err = NoErr THEN strict
             ELSE IF buf.j = "invalid" THEN TyErr("invalid character")
             ELSE fallback(buf)

\* decodeCtyTypeFromJSONBytes has not returned.
NoTypeResult == [ty |-> NilType, err |-> << "pending" >>]

\* Nesting of arrays and objects in a JSON document.
RECURSIVE JDepth(_)
JDepth(doc) ==
    IF doc.j = "array"
    THEN LET ds == { JDepth(doc.items[i]) : i \in 1..Len(doc.items) } \cup {0}
         IN  1 + (CHOOSE d \in ds : \A e \in ds : e <= d)
    ELSE IF doc.j = "object"
    THEN LET ds == { JDepth(doc.m[n]) : n \in DOMAIN doc.m } \cup {0}
         IN  1 + (CHOOSE d \in ds : \A e \in ds : e <= d)
    ELSE 0

\* The signatures a provider may send that are no array and no object: the
\* names of the types, a name of no type, a number, no bytes, and text
\* that is not JSON.
TypeLeaves ==
    { JStr(s) : s \in {"string", "number", "bool", "dynamic", "foo"} }
        \cup {JNum, JEmpty, JInvalid}

\* The signatures made of the signature x: the strict arrays, the objects
\* of the looser encoding, and their malformed neighbours.
TypeWrappers(x) ==
    { JArr(<< JStr(k), x >>) : k \in {"list", "set", "map", "object", "foo"} }
        \cup { JObj([n \in {k} |-> x]) : k \in {"list", "set", "map", "object", "foo"} }
        \cup { JArr(<< JStr("list"), x, x >>),
               JObj([list |-> x, set |-> x]),
               JArr(<< JStr("object"), JObj([a |-> x]) >>),
               JArr(<< JStr("object"), JObj([a |-> x, b |-> JStr("number")]) >>),
               JObj([object |-> JObj([a |-> x])]),
               JObj([object |-> JObj([a |-> x, b |-> JStr("bool")])]) }

\* The provider's signature is one level richer.
WrapType ==
    /\ tres = NoTypeResult
    /\ tbuf.j \notin {"empty", "invalid"}
    /\ \E doc \in TypeWrappers(tbuf) :
          /\ JDepth(doc) <= MaxTypeDepth
          /\ tbuf' = doc
    /\ UNCHANGED <<tres, wcats, clientVars, serverVars, resolverVars, envVars>>

\* decodeCtyTypeFromJSONBytes(tbuf) is called and returns.
CallDecode ==
    /\ tres = NoTypeResult
    /\ tres' = decodeCtyTypeFromJSONBytes(tbuf)
    /\ UNCHANGED <<tbuf, wcats, clientVars, serverVars, resolverVars, envVars>>

\* ------------------------------------------------------------------------
\* The wire schema and its translation to terraform-json
\* ------------------------------------------------------------------------
MaxDepth == 2       \* deepest nesting of blocks the provider serves
MaxCloses == 2      \* close() calls in one run

\* A nil *Schema_Block, which translates to a nil *tfjson.SchemaBlock.
NilBlock == [isNil |-> TRUE]

\* A nil Go map, and a map that was made: m is a function of its keys.
NilMap == [isNil |-> TRUE, m |-> << >>]
MadeMap(m) == [isNil |-> FALSE, m |-> m]

\* A nil *Schema_Object, and the nil *tfjson.SchemaNestedAttributeType.
NilObject == [isNil |-> TRUE]
NilNested == [isNil |-> TRUE]

\* A Schema_Attribute, of which the model keeps the name, the type bytes,
\* one of the flags, the description kind and the nested type, which only
\* the v6 message has and which is nil here.
Attribute(name, type, required, descriptionKind) ==
    [Name |-> name, Type |-> type, Required |-> required,
     DescriptionKind |-> descriptionKind, NestedType |-> NilObject]

\* A v6 Schema_Attribute with a nested type.
NestedAttribute(name, type, nestedType) ==
    [Name |-> name, Type |-> type, Required |-> FALSE,
     DescriptionKind |-> "PLAIN", NestedType |-> nestedType]

\* A v6 Schema_Object.
SchemaObject(nesting, attributes) ==
    [isNil |-> FALSE, Nesting |-> nesting, Attributes |-> attributes]

\* A Schema_Block with attributes and no nested block types.
AttrBlock(attributes) ==
    [isNil |-> FALSE, Attributes |-> attributes, BlockTypes |-> << >>]

\* A Schema_Block with nested block types and no attributes.
Block(blockTypes) == [isNil |-> FALSE, Attributes |-> << >>, BlockTypes |-> blockTypes]

\* A Schema_NestedBlock.
NestedBlock(typeName, nesting, block) ==
    [TypeName |-> typeName, Nesting |-> nesting, Block |-> block]

\* Schema_NestedBlock_NestingMode on the wire: the names of the enum, and a
\* number the enum does not name.
WireNestingModes == { "INVALID", "SINGLE", "LIST", "SET", "MAP", "GROUP", "7" }

\* The nesting switch without its default branch: the zero value stays.
NestingModeV6_NoDefault(nesting) ==
    CASE nesting = "SINGLE" -> "single"
      [] nesting = "GROUP"  -> "group"
      [] nesting = "LIST"   -> "list"
      [] nesting = "SET"    -> "set"
      [] nesting = "MAP"    -> "map"
      [] OTHER              -> ""

\* switch nb.GetNesting() of convertV6BlockToTFJSON
NestingModeV6(nesting) ==
    CASE nesting = "SINGLE" -> "single"
      [] nesting = "GROUP"  -> "group"
      [] nesting = "LIST"   -> "list"
      [] nesting = "SET"    -> "set"
      [] nesting = "MAP"    -> "map"
      [] OTHER              -> "single"

\* The nesting switch without the case for GROUP.
NestingModeV5_NoGroup(nesting) ==
    CASE nesting = "SINGLE" -> "single"
      [] nesting = "LIST"   -> "list"
      [] nesting = "SET"    -> "set"
      [] nesting = "MAP"    -> "map"
      [] OTHER              -> "single"

\* switch nb.GetNesting() of convertV5BlockToTFJSON
NestingModeV5(nesting) ==
    CASE nesting = "SINGLE" -> "single"
      [] nesting = "GROUP"  -> "group"
      [] nesting = "LIST"   -> "list"
      [] nesting = "SET"    -> "set"
      [] nesting = "MAP"    -> "map"
      [] OTHER              -> "single"

\* The index of the last block type of bts named n: the loop assigns
\* sb.NestedBlocks[nb.GetTypeName()] in list order, so the last one stays.
LastNamed(bts, n) ==
    CHOOSE i \in 1..Len(bts) :
        /\ bts[i].TypeName = n
        /\ \A j \in 1..Len(bts) : bts[j].TypeName = n => j <= i

\* The index of the last attribute of attrs named n: the loop assigns
\* sb.Attributes[a.GetName()] in list order.
LastAttr(attrs, n) ==
    CHOOSE i \in 1..Len(attrs) :
        /\ attrs[i].Name = n
        /\ \A j \in 1..Len(attrs) : attrs[j].Name = n => j <= i

\* switch a.GetDescriptionKind(), the same in both generations
DescriptionKind(kind) == IF kind = "MARKDOWN" THEN "markdown" ELSE "plain"

\* The attribute loop aborting the attribute whose type does not decode:
\* the entry is left out of the map.
convertAttributes_DropUndecoded(attrs) ==
    IF Len(attrs) = 0 THEN NilMap
    ELSE MadeMap([n \in { attrs[i].Name :
                            i \in { j \in 1..Len(attrs) :
                                       attrs[j].Type.j = "empty"
                                       \/ decodeCtyTypeFromJSONBytes(attrs[j].Type).err = NoErr } } |->
                    LET a == attrs[LastAttr(attrs, n)]
                    IN  [Required |-> a.Required,
                         DescriptionKind |-> DescriptionKind(a.DescriptionKind),
                         AttributeType |->
                             IF a.Type.j # "empty"
                                /\ decodeCtyTypeFromJSONBytes(a.Type).err = NoErr
                             THEN decodeCtyTypeFromJSONBytes(a.Type).ty
                             ELSE NilType,
                         AttributeNestedType |-> NilNested]])

\* The attribute loop of convertV5BlockToTFJSON, and that of
\* convertV6BlockToTFJSON and convertV6ObjectToNested up to the nested type:
\* sb.Attributes stays nil without attributes; the type is set only when
\* the bytes are not empty and decode; AttributeNestedType stays nil.
convertAttributes(attrs) ==
    IF Len(attrs) = 0 THEN NilMap
    ELSE MadeMap([n \in { attrs[i].Name : i \in 1..Len(attrs) } |->
                    LET a == attrs[LastAttr(attrs, n)]
                    IN  [Required |-> a.Required,
                         DescriptionKind |-> DescriptionKind(a.DescriptionKind),
                         AttributeType |->
                             IF a.Type.j # "empty"
                                /\ decodeCtyTypeFromJSONBytes(a.Type).err = NoErr
                             THEN decodeCtyTypeFromJSONBytes(a.Type).ty
                             ELSE NilType,
                         AttributeNestedType |-> NilNested]])

\* Schema_Object_NestingMode on the wire: the names of the enum, and a
\* number the enum does not name.
ObjectNestingModes == { "INVALID", "SINGLE", "LIST", "SET", "MAP", "5" }

\* switch o.GetNesting() of convertV6ObjectToNested
NestingModeObject(nesting) ==
    CASE nesting = "SINGLE" -> "single"
      [] nesting = "LIST"   -> "list"
      [] nesting = "SET"    -> "set"
      [] nesting = "MAP"    -> "map"
      [] OTHER              -> "single"

\* The attribute loop setting a type on an attribute with a nested type
\* whose own type is not set.
RECURSIVE convertV6ObjectToNested_Typed(_)
convertV6Attributes_Typed(attrs) ==
    LET sas == convertAttributes(attrs)
    IN  IF sas.isNil THEN NilMap
        ELSE MadeMap([n \in DOMAIN sas.m |->
                        LET a == attrs[LastAttr(attrs, n)]
                        IN  IF a.NestedType.isNil THEN sas.m[n]
                            ELSE [sas.m[n] EXCEPT
                                    !.AttributeType =
                                        IF @ = NilType
                                        THEN decodeCtyTypeFromJSONBytes(JStr("string")).ty
                                        ELSE @,
                                    !.AttributeNestedType =
                                        convertV6ObjectToNested_Typed(a.NestedType)]])

convertV6ObjectToNested_Typed(o) ==
    IF o.isNil THEN NilNested
    ELSE [isNil |-> FALSE,
          Attributes |-> convertV6Attributes_Typed(o.Attributes),
          NestingMode |-> NestingModeObject(o.Nesting)]

\* The attribute loop of convertV6BlockToTFJSON and convertV6ObjectToNested:
\* after the type, "if a.NestedType != nil { sa.AttributeNestedType =
\* convertV6ObjectToNested(a.NestedType) }".
RECURSIVE convertV6ObjectToNested(_)
convertV6Attributes(attrs) ==
    LET sas == convertAttributes(attrs)
    IN  IF sas.isNil THEN NilMap
        ELSE MadeMap([n \in DOMAIN sas.m |->
                        LET a == attrs[LastAttr(attrs, n)]
                        IN  IF a.NestedType.isNil THEN sas.m[n]
                            ELSE [sas.m[n] EXCEPT
                                    !.AttributeNestedType =
                                        convertV6ObjectToNested(a.NestedType)]])

\* convertV6ObjectToNested: n.Attributes stays nil without attributes.
convertV6ObjectToNested(o) ==
    IF o.isNil THEN NilNested
    ELSE [isNil |-> FALSE,
          Attributes |-> convertV6Attributes(o.Attributes),
          NestingMode |-> NestingModeObject(o.Nesting)]

RECURSIVE convertV6BlockToTFJSON(_)
convertV6BlockToTFJSON(b) ==
    IF b.isNil THEN NilBlock
    ELSE LET bts == b.BlockTypes
         IN  [isNil |-> FALSE,
              Attributes |-> convertV6Attributes(b.Attributes),
              NestedBlocks |->
                  [n \in { bts[i].TypeName : i \in 1..Len(bts) } |->
                      [NestingMode |-> NestingModeV6(bts[LastNamed(bts, n)].Nesting),
                       Block |-> convertV6BlockToTFJSON(bts[LastNamed(bts, n)].Block)]]]

RECURSIVE convertV5BlockToTFJSON(_)
convertV5BlockToTFJSON(b) ==
    IF b.isNil THEN NilBlock
    ELSE LET bts == b.BlockTypes
         IN  [isNil |-> FALSE,
              Attributes |-> convertAttributes(b.Attributes),
              NestedBlocks |->
                  [n \in { bts[i].TypeName : i \in 1..Len(bts) } |->
                      [NestingMode |-> NestingModeV5(bts[LastNamed(bts, n)].Nesting),
                       Block |-> convertV5BlockToTFJSON(bts[LastNamed(bts, n)].Block)]]]

\* A nil *Schema, *tfjson.Schema, response or *tfjson.ProviderSchema.
NilSchema == [isNil |-> TRUE]

\* convertV6SchemaToTFJSON / convertV5SchemaToTFJSON
convertV6SchemaToTFJSON(sch) ==
    IF sch.isNil THEN NilSchema
    ELSE [isNil |-> FALSE, Version |-> sch.Version, Block |-> convertV6BlockToTFJSON(sch.Block)]

convertV5SchemaToTFJSON(sch) ==
    IF sch.isNil THEN NilSchema
    ELSE [isNil |-> FALSE, Version |-> sch.Version, Block |-> convertV5BlockToTFJSON(sch.Block)]

\* A nil *Function, *Function_Parameter, *Function_Return and their
\* translations.
NilFunction == [isNil |-> TRUE]

\* A Function_Parameter and a Function_Return, of which the model keeps the
\* name and the type bytes.
Parameter(name, type) == [isNil |-> FALSE, Name |-> name, Type |-> type]
Return(type) == [isNil |-> FALSE, Type |-> type]

\* A Function, of which the model keeps the summary, the parameters, the
\* variadic parameter and the return.
Function(summary, parameters, variadic, return) ==
    [isNil |-> FALSE, Summary |-> summary, Parameters |-> parameters,
     VariadicParameter |-> variadic, Return |-> return]

\* The type of a parameter or return: set only when the bytes are not empty
\* and decode.
TypeOrNil(tbytes) ==
    IF tbytes.j # "empty" /\ decodeCtyTypeFromJSONBytes(tbytes).err = NoErr
    THEN decodeCtyTypeFromJSONBytes(tbytes).ty
    ELSE NilType

\* The function conversion dropping the whole signature when one of its
\* types does not decode.
convertFunction_AllOrNothing(f) ==
    IF f.isNil THEN NilFunction
    ELSE IF \/ \E i \in 1..Len(f.Parameters) :
                  f.Parameters[i].Type.j # "empty"
                  /\ decodeCtyTypeFromJSONBytes(f.Parameters[i].Type).err # NoErr
            \/ ~f.Return.isNil /\ f.Return.Type.j # "empty"
               /\ decodeCtyTypeFromJSONBytes(f.Return.Type).err # NoErr
    THEN NilFunction
    ELSE [isNil |-> FALSE,
          Summary |-> f.Summary,
          Parameters |-> [i \in 1..Len(f.Parameters) |->
                             [Name |-> f.Parameters[i].Name,
                              Type |-> TypeOrNil(f.Parameters[i].Type)]],
          VariadicParameter |->
              IF f.VariadicParameter.isNil THEN NilFunction
              ELSE [isNil |-> FALSE, Name |-> f.VariadicParameter.Name,
                    Type |-> TypeOrNil(f.VariadicParameter.Type)],
          ReturnType |-> IF f.Return.isNil THEN NilType ELSE TypeOrNil(f.Return.Type)]

\* convertV6FunctionToTFJSON and convertV5FunctionToTFJSON, which are the
\* same statements over the two generations' types.
convertFunction(f) ==
    IF f.isNil THEN NilFunction
    ELSE [isNil |-> FALSE,
          Summary |-> f.Summary,
          Parameters |-> [i \in 1..Len(f.Parameters) |->
                             [Name |-> f.Parameters[i].Name,
                              Type |-> TypeOrNil(f.Parameters[i].Type)]],
          VariadicParameter |->
              IF f.VariadicParameter.isNil THEN NilFunction
              ELSE [isNil |-> FALSE, Name |-> f.VariadicParameter.Name,
                    Type |-> TypeOrNil(f.VariadicParameter.Type)],
          ReturnType |-> IF f.Return.isNil THEN NilType ELSE TypeOrNil(f.Return.Type)]

convertV6FunctionToTFJSON(f) == convertFunction(f)

convertV5FunctionToTFJSON(f) == convertFunction(f)

\* The test of a category written as "resp.X != nil".
CategoryPresent_NotNil(wm) == ~wm.isNil

\* "len(resp.X) > 0": false of a nil map and of an empty one.
CategoryPresent(wm) == Cardinality(DOMAIN wm.m) > 0

\* One category of a response: "if len(resp.X) > 0 { ps.X = make(...); for
\* k, v := range resp.X { ps.X[k] = conv(v) } }", given the converted
\* entries.
convertCategory(wm, converted) ==
    IF CategoryPresent(wm) THEN MadeMap(converted) ELSE NilMap

\* convertV6ResponseToTFJSON / convertV5ResponseToTFJSON: (ps, err)
convertV6ResponseToTFJSON(resp) ==
    IF resp.isNil THEN [ps |-> NilSchema, err |-> << "nil v6 response" >>]
    ELSE [ps |-> [isNil |-> FALSE,
                  ConfigSchema |-> convertV6SchemaToTFJSON(resp.Provider),
                  ResourceSchemas |->
                      convertCategory(resp.ResourceSchemas,
                          [k \in DOMAIN resp.ResourceSchemas.m |-> convertV6SchemaToTFJSON(resp.ResourceSchemas.m[k])]),
                  DataSourceSchemas |->
                      convertCategory(resp.DataSourceSchemas,
                          [k \in DOMAIN resp.DataSourceSchemas.m |-> convertV6SchemaToTFJSON(resp.DataSourceSchemas.m[k])]),
                  EphemeralResourceSchemas |->
                      convertCategory(resp.EphemeralResourceSchemas,
                          [k \in DOMAIN resp.EphemeralResourceSchemas.m |-> convertV6SchemaToTFJSON(resp.EphemeralResourceSchemas.m[k])]),
                  Functions |-> convertCategory(resp.Functions,
                          [k \in DOMAIN resp.Functions.m |-> convertV6FunctionToTFJSON(resp.Functions.m[k])])],
          err |-> NoErr]

convertV5ResponseToTFJSON(resp) ==
    IF resp.isNil THEN [ps |-> NilSchema, err |-> << "nil v5 response" >>]
    ELSE [ps |-> [isNil |-> FALSE,
                  ConfigSchema |-> convertV5SchemaToTFJSON(resp.Provider),
                  ResourceSchemas |->
                      convertCategory(resp.ResourceSchemas,
                          [k \in DOMAIN resp.ResourceSchemas.m |-> convertV5SchemaToTFJSON(resp.ResourceSchemas.m[k])]),
                  DataSourceSchemas |->
                      convertCategory(resp.DataSourceSchemas,
                          [k \in DOMAIN resp.DataSourceSchemas.m |-> convertV5SchemaToTFJSON(resp.DataSourceSchemas.m[k])]),
                  EphemeralResourceSchemas |->
                      convertCategory(resp.EphemeralResourceSchemas,
                          [k \in DOMAIN resp.EphemeralResourceSchemas.m |-> convertV5SchemaToTFJSON(resp.EphemeralResourceSchemas.m[k])]),
                  Functions |-> convertCategory(resp.Functions,
                          [k \in DOMAIN resp.Functions.m |-> convertV5FunctionToTFJSON(resp.Functions.m[k])])],
          err |-> NoErr]

\* ------------------------------------------------------------------------
\* universalProviderClient
\* ------------------------------------------------------------------------
\* The provider's answer to the schema RPC of generation gen (5 or 6): its
\* config schema, whose version tells the two generations' answers apart.
ProviderResponse(gen) ==
    LET schema == [isNil |-> FALSE, Version |-> gen, Block |-> wire]
        function == Function("summary",
                             << Parameter("p", tbuf), Parameter("q", JStr("string")) >>,
                             Parameter("v", tbuf), Return(tbuf))
        Schemas(c) == [isNil |-> c.isNil, m |-> [n \in c.names |-> schema]]
    IN  [isNil |-> FALSE,
         Provider |-> schema,
         ResourceSchemas |-> Schemas(wcats.ResourceSchemas),
         DataSourceSchemas |-> Schemas(wcats.DataSourceSchemas),
         EphemeralResourceSchemas |-> Schemas(wcats.EphemeralResourceSchemas),
         Functions |-> [isNil |-> wcats.Functions.isNil,
                        m |-> [n \in wcats.Functions.names |-> function]]]

NilResponse == [isNil |-> TRUE]

\* providerGRPCClient.Schema wrapping the error of the RPC of generation gen.
RpcError(gen) ==
    << "failed to get provider schema", IF gen = 6 THEN "v6 error" ELSE "v5 error" >>

\* schema() has not returned.
NoSchemaResult == [ps |-> NilSchema, err |-> << "pending" >>]

\* Depth of nesting of a wire block.
RECURSIVE Depth(_)
Depth(b) ==
    IF b.isNil \/ b.BlockTypes = << >> THEN 0
    ELSE LET ds == { Depth(b.BlockTypes[i].Block) : i \in 1..Len(b.BlockTypes) }
         IN  1 + (CHOOSE d \in ds : \A e \in ds : e <= d)

\* The provider is built with one more level of nested block around its
\* config block (or around a nil block), in any nesting mode.
WrapBlock ==
    /\ cpc = "idle" /\ closes = 0
    /\ Depth(wire) < MaxDepth
    /\ \E nesting \in WireNestingModes :
          \E inner \in {wire} \cup (IF wire = Block(<< >>) THEN {NilBlock} ELSE {}) :
             wire' = Block(<< NestedBlock("nb", nesting, inner) >>)
    /\ UNCHANGED <<uc, proc, cpc, rpcLog, cres, closes, launches, serverVars, resolverVars, envVars, typeVars>>

\* schema() is called.
CallSchema ==
    /\ cpc = "idle"
    /\ cpc' = "v6"
    /\ UNCHANGED <<uc, proc, wire, rpcLog, cres, closes, launches, serverVars, resolverVars, envVars, typeVars>>

\* "Prefer v6": if c.v6 != nil, the v6 RPC and, when it returned no error,
\* the conversion of its response, whose result schema() returns.
SchemaV6 ==
    /\ cpc = "v6"
    /\ IF uc.v6
       THEN \E resp \in {ProviderResponse(6), NilResponse} : \E rpcErr \in {NoErr, RpcError(6)} :
               LET conv == convertV6ResponseToTFJSON(resp)
               IN  /\ rpcLog' = Append(rpcLog, [gen |-> 6, err |-> rpcErr,
                                             nilResp |-> rpcErr = NoErr /\ resp.isNil])
                   /\ IF rpcErr # NoErr THEN cpc' = "v5" /\ cres' = cres
                      ELSE /\ cpc' = "done"
                           /\ cres' = IF conv.err # NoErr
                                      THEN [ps |-> NilSchema,
                                            err |-> << "failed to convert v6 response" >> \o conv.err]
                                      ELSE conv
       ELSE cpc' = "v5" /\ UNCHANGED <<rpcLog, cres>>
    /\ UNCHANGED <<uc, proc, wire, closes, launches, serverVars, resolverVars, envVars, typeVars>>

\* The fallback reporting the v6 failure although v5 answered.
SchemaV5_SurfacesV6 ==
    /\ cpc = "v5"
    /\ cpc' = "done"
    /\ IF uc.v5
       THEN \E resp \in {ProviderResponse(5), NilResponse} : \E rpcErr \in {NoErr, RpcError(5)} :
               LET conv == convertV5ResponseToTFJSON(resp)
               IN  /\ rpcLog' = Append(rpcLog, [gen |-> 5, err |-> rpcErr,
                                             nilResp |-> rpcErr = NoErr /\ resp.isNil])
                   /\ cres' = IF rpcErr # NoErr
                              THEN [ps |-> NilSchema,
                                    err |-> << "failed to get provider schema for either V5 or V6 protocols" >>]
                              ELSE IF conv.err # NoErr
                              THEN [ps |-> NilSchema,
                                    err |-> << "failed to convert v5 response" >> \o conv.err]
                              ELSE IF rpcLog # << >>
                              THEN [ps |-> conv.ps, err |-> rpcLog[1].err]
                              ELSE conv
       ELSE /\ cres' = [ps |-> NilSchema,
                        err |-> << "failed to get provider schema for either V5 or V6 protocols" >>]
            /\ rpcLog' = rpcLog
    /\ UNCHANGED <<uc, proc, wire, closes, launches, serverVars, resolverVars, envVars, typeVars>>

\* "Fallback to v5": the same with c.v5, and the final error when neither
\* generation returned.
SchemaV5 ==
    /\ cpc = "v5"
    /\ cpc' = "done"
    /\ IF uc.v5
       THEN \E resp \in {ProviderResponse(5), NilResponse} : \E rpcErr \in {NoErr, RpcError(5)} :
               LET conv == convertV5ResponseToTFJSON(resp)
               IN  /\ rpcLog' = Append(rpcLog, [gen |-> 5, err |-> rpcErr,
                                             nilResp |-> rpcErr = NoErr /\ resp.isNil])
                   /\ cres' = IF rpcErr # NoErr
                              THEN [ps |-> NilSchema,
                                    err |-> << "failed to get provider schema for either V5 or V6 protocols" >>]
                              ELSE IF conv.err # NoErr
                              THEN [ps |-> NilSchema,
                                    err |-> << "failed to convert v5 response" >> \o conv.err]
                              ELSE conv
       ELSE /\ cres' = [ps |-> NilSchema,
                        err |-> << "failed to get provider schema for either V5 or V6 protocols" >>]
            /\ rpcLog' = rpcLog
    /\ UNCHANGED <<uc, proc, wire, closes, launches, serverVars, resolverVars, envVars, typeVars>>

\* close() leaving the generation handles in place.
close_KeepHandles(c) == c

\* close() clearing the v6 handle only.
close_KeepV5(c) == [c EXCEPT !.v6 = FALSE]

\* close(): what it does to the struct after calling closeFunc.
close(c) == [c EXCEPT !.v5 = FALSE, !.v6 = FALSE]

\* close() is called, between calls of schema().
Close ==
    /\ cpc \in {"idle", "done"}
    /\ closes < MaxCloses
    /\ closes' = closes + 1
    /\ proc' = IF uc.closeFunc THEN Kill(proc) ELSE proc
    /\ uc' = close(uc)
    /\ UNCHANGED <<wire, cpc, rpcLog, cres, launches, serverVars, resolverVars, envVars, typeVars>>

\* v5Schema() / v6Schema() of the universal client, called on their own:
\* with the handle of generation gen set, the RPC of that generation, whose
\* error they return; without it, no RPC and the "not supported" error.  Of
\* the response the model keeps nothing.
rawSchema(gen) ==
    /\ cpc = "idle"
    /\ cpc' = "done"
    /\ IF (gen = 5 /\ uc.v5) \/ (gen = 6 /\ uc.v6)
       THEN \E rpcErr \in {NoErr, RpcError(gen)} :
               /\ rpcLog' = Append(rpcLog, [gen |-> gen, err |-> rpcErr, nilResp |-> FALSE])
               /\ cres' = [ps |-> NilSchema, err |-> rpcErr]
       ELSE /\ rpcLog' = rpcLog
            /\ cres' = [ps |-> NilSchema,
                        err |-> << IF gen = 5 THEN "V5 protocol not supported by this provider"
                                   ELSE "V6 protocol not supported by this provider" >>]
    /\ UNCHANGED <<uc, proc, wire, closes, launches, serverVars, resolverVars, envVars, typeVars>>

CallV5Schema == rawSchema(5)

CallV6Schema == rawSchema(6)

\* newGrpcClient binding both generation handles.
universalProviderClient_Both(raw) == [v5 |-> TRUE, v6 |-> TRUE, closeFunc |-> TRUE]

\* The struct newGrpcClient returns for the client the plugin framework
\* dispensed: a *providerGRPCClientV5 (raw = 5) or a *providerGRPCClientV6
\* (raw = 6), with closeFunc set to client.Kill.
universalProviderClient(raw) == [v5 |-> raw = 5, v6 |-> raw = 6, closeFunc |-> TRUE]

\* newGrpcClient(providerPath): one plugin client that advertises both
\* generations, one client.Client() and one Dispense; each failure kills the
\* subprocess and returns the error, with no client.
CallNewGrpcClient ==
    /\ launches = << >> /\ cpc = "idle" /\ closes = 0
    /\ \E outcome \in {"ok"} \cup LaunchFailures : \E raw \in {5, 6} :
          /\ launches' = Append(launches,
                                [gens |-> {5, 6},
                                 err |-> IF outcome = "ok" THEN NoErr ELSE << outcome >>])
          /\ proc' = newGrpcClient(outcome)
          /\ uc' = IF outcome = "ok" THEN universalProviderClient(raw) ELSE uc
    /\ UNCHANGED <<wire, cpc, rpcLog, cres, closes, serverVars, resolverVars, envVars, typeVars>>

\* newGrpcClient has returned a client.
Launched == launches # << >> /\ launches[Len(launches)].err = NoErr

\* A category of the wire response: a nil map, or a map with these names.
NoNames == [isNil |-> TRUE, names |-> {}]
Named(names) == [isNil |-> FALSE, names |-> names]

\* No type signature under decoding, and a provider that serves its config
\* schema only.
NoTypes ==
    /\ tbuf = JEmpty
    /\ tres = NoTypeResult
    /\ wcats = [ResourceSchemas |-> NoNames, DataSourceSchemas |-> NoNames,
                EphemeralResourceSchemas |-> NoNames, Functions |-> NoNames]

\* No client: the state of the client variables where none is used.
NoClient ==
    /\ uc = [v5 |-> FALSE, v6 |-> FALSE, closeFunc |-> FALSE]
    /\ proc = "none"
    /\ wire = Block(<< >>)
    /\ cpc = "idle"
    /\ rpcLog = << >>
    /\ cres = NoSchemaResult
    /\ closes = 0
    /\ launches = << >>

\* ------------------------------------------------------------------------
\* The Server specification
\* ------------------------------------------------------------------------
\* NewServer: empty caches, a free lock, no temporary directory.
NewServer ==
    /\ dlc = << >>
    /\ sc = << >>
    /\ versionsc = << >>
    /\ mu = [writer |-> NoThread, readers |-> {}]
    /\ tmpDir = ""
    /\ tmpExists = FALSE
    /\ cleanups = 0
    /\ extractDirs = {}
    /\ unpacked = << >>
    /\ th = [t \in Threads |-> IdleThread]
    /\ results = {}
    /\ downloadCalls = 0
    /\ schemaCalls = 0
    /\ procs = {}
    /\ faults = 0
    /\ crashed = FALSE

Init ==
    /\ NewServer
    /\ requestVersions = RequestVersions
    /\ registry = RegistryVersions
    /\ registryStatuses = DefaultStatuses
    /\ schemaFaults = DefaultSchemaFaults
    /\ archives = DefaultArchives
    /\ NoClient
    /\ NoTypes
    /\ rVersions = << >>
    /\ rConstraints = NilConstraints
    /\ rResult = NoResult

Next ==
    \E t \in Threads :
        \/ CallGet(t) \/ CallAccessor(t) \/ CallGetAvailableVersions(t)
        \/ AvRLock(t) \/ AvCheck(t) \/ AvLock(t) \/ AvStore(t)
        \/ GetRLock(t) \/ GetCheck(t) \/ GetLock(t) \/ GetDownload(t)
        \/ GsRLock(t) \/ GsCheck(t) \/ GsRLock2(t) \/ GsPath(t)
        \/ GsSchema(t) \/ GsLock(t) \/ GsStore(t)
        \/ AccRLock(t) \/ AccCheck(t) \/ AccRLock2(t) \/ AccRead(t)

Spec == Init /\ [][Next]_vars

\* ------------------------------------------------------------------------
\* Resolver harness: every bounded input, one call
\* ------------------------------------------------------------------------
VersionLists == UNION { [1..n -> Versions] : n \in 0..MaxLen }

ConstraintSets ==
    { NilConstraints,
      Constraints(<< >>),
      Constraints(<< C(">=", <<1, 0, 0>>, 3), C("<", <<2, 0, 0>>, 3) >>),
      Constraints(<< C("<", <<0, 9, 0>>, 3) >>),
      Constraints(<< C(">=", <<1, 5, 0>>, 3) >>),
      Constraints(<< C("~>", <<1, 0, 0>>, 2) >>),
      Constraints(<< C("=", <<1, 0, 0>>, 3) >>) }

ResolverInit ==
    /\ rVersions \in VersionLists
    /\ rConstraints \in ConstraintSets
    /\ rResult = NoResult
    /\ NewServer
    /\ requestVersions = RequestVersions
    /\ registry = RegistryVersions
    /\ registryStatuses = DefaultStatuses
    /\ schemaFaults = DefaultSchemaFaults
    /\ archives = DefaultArchives
    /\ NoClient
    /\ NoTypes

CallGetLatestVersionMatch ==
    /\ rResult = NoResult
    /\ rResult' = GetLatestVersionMatch(rVersions, rConstraints)
    /\ UNCHANGED <<rVersions, rConstraints, serverVars, envVars, typeVars, clientVars>>

ResolverNext == CallGetLatestVersionMatch

ResolverSpec == ResolverInit /\ [][ResolverNext]_vars

\* ------------------------------------------------------------------------
\* fixVersion harness: one goroutine, more request versions and registries
\* ------------------------------------------------------------------------
FixRequestVersions ==
    { "1.5.0", "v1.5.0", "1.5.0-beta.1", ">=1.0.0,<2.0.0", "<0.9.0", "",
      "invalid-constraint" }

RegistryBodies ==
    { RegistryVersions, << "0.9.0", "1.0.0", "1.5.0", "2.0.0" >>, << "1.0.0" >>, << >> }

\* The statuses other than 200 the registry answers in the harnesses.
FixStatuses == [download |-> {403, 404, 500}, versions |-> {404, 500}]

\* A fresh Server called by goroutine 1 only.
FixInit ==
    /\ dlc = << >>
    /\ sc = << >>
    /\ versionsc = << >>
    /\ mu = [writer |-> NoThread, readers |-> {}]
    /\ tmpDir = ""
    /\ tmpExists = FALSE
    /\ cleanups = 0
    /\ extractDirs = {}
    /\ unpacked = << >>
    /\ th = [t \in Threads |-> IF t = 1 THEN IdleThread ELSE [IdleThread EXCEPT !.pc = "done"]]
    /\ results = {}
    /\ downloadCalls = 0
    /\ schemaCalls = 0
    /\ procs = {}
    /\ faults = 0
    /\ crashed = FALSE
    /\ requestVersions = FixRequestVersions
    /\ registry \in RegistryBodies
    /\ registryStatuses = FixStatuses
    /\ schemaFaults = DefaultSchemaFaults
    /\ archives = DefaultArchives
    /\ NoClient
    /\ NoTypes
    /\ rVersions = << >>
    /\ rConstraints = NilConstraints
    /\ rResult = NoResult

FixSpec == FixInit /\ [][Next]_vars

\* ------------------------------------------------------------------------
\* Client harness: one universalProviderClient, built by newGrpcClient (one
\* generation bound, closeFunc set, the subprocess running) or as a struct
\* literal (any fields set; without closeFunc there is no subprocess)
\* ------------------------------------------------------------------------
ClientInit ==
    /\ uc \in [v5 : BOOLEAN, v6 : BOOLEAN, closeFunc : BOOLEAN]
    /\ proc = IF uc.closeFunc THEN "running" ELSE "none"
    /\ wire = Block(<< >>)
    /\ cpc = "idle"
    /\ rpcLog = << >>
    /\ cres = NoSchemaResult
    /\ closes = 0
    /\ launches = << >>
    /\ NoTypes
    /\ NewServer
    /\ requestVersions = RequestVersions
    /\ registry = RegistryVersions
    /\ registryStatuses = DefaultStatuses
    /\ schemaFaults = DefaultSchemaFaults
    /\ archives = DefaultArchives
    /\ rVersions = << >>
    /\ rConstraints = NilConstraints
    /\ rResult = NoResult

ClientNext == WrapBlock \/ CallSchema \/ SchemaV6 \/ SchemaV5 \/ Close

ClientSpec == ClientInit /\ [][ClientNext]_vars

\* ------------------------------------------------------------------------
\* The client from newGrpcClient on
\* ------------------------------------------------------------------------
LaunchInit ==
    /\ NoClient
    /\ NoTypes
    /\ NewServer
    /\ requestVersions = RequestVersions
    /\ registry = RegistryVersions
    /\ registryStatuses = DefaultStatuses
    /\ schemaFaults = DefaultSchemaFaults
    /\ archives = DefaultArchives
    /\ rVersions = << >>
    /\ rConstraints = NilConstraints
    /\ rResult = NoResult

\* The provider is built first; schema() and close() are called on the
\* client newGrpcClient returned.
LaunchNext ==
    \/ (launches = << >> /\ WrapBlock)
    \/ CallNewGrpcClient
    \/ (Launched /\ (CallSchema \/ SchemaV6 \/ SchemaV5 \/ Close))

LaunchSpec == LaunchInit /\ [][LaunchNext]_vars

\* The same with v5Schema() and v6Schema() called on the client as well.
CloseNext ==
    \/ (launches = << >> /\ WrapBlock)
    \/ CallNewGrpcClient
    \/ (Launched /\ (CallSchema \/ SchemaV6 \/ SchemaV5 \/ Close))
    \/ (Launched /\ (CallV5Schema \/ CallV6Schema))

CloseSpec == LaunchInit /\ [][CloseNext]_vars

\* ------------------------------------------------------------------------
\* Cleanup harness: the Server's calls, and Cleanup between them
\* ------------------------------------------------------------------------
CleanupRequestVersions == { "1.5.0" }

CleanupInit ==
    /\ NewServer
    /\ requestVersions = CleanupRequestVersions
    /\ registry = RegistryVersions
    /\ registryStatuses = DefaultStatuses
    /\ schemaFaults = DefaultSchemaFaults
    /\ archives = DefaultArchives
    /\ NoClient
    /\ NoTypes
    /\ rVersions = << >>
    /\ rConstraints = NilConstraints
    /\ rResult = NoResult

CleanupNext == Next \/ Cleanup

CleanupSpec == CleanupInit /\ [][CleanupNext]_vars

\* ------------------------------------------------------------------------
\* The Server under a fair scheduler
\* ------------------------------------------------------------------------
\* Every step goroutine t can take.
ThreadNext(t) ==
    \/ CallGet(t) \/ CallAccessor(t) \/ CallGetAvailableVersions(t)
    \/ AvRLock(t) \/ AvCheck(t) \/ AvLock(t) \/ AvStore(t)
    \/ GetRLock(t) \/ GetCheck(t) \/ GetLock(t) \/ GetDownload(t)
    \/ GsRLock(t) \/ GsCheck(t) \/ GsRLock2(t) \/ GsPath(t)
    \/ GsSchema(t) \/ GsLock(t) \/ GsStore(t)
    \/ AccRLock(t) \/ AccCheck(t) \/ AccRLock2(t) \/ AccRead(t)

\* The requests of the fair runs: an exact version and a constraint, so that
\* Get and getSchema run with and without the nested GetAvailableVersions.
LockRequestVersions == { "1.5.0", ">=1.0.0,<2.0.0" }

LockInit ==
    /\ NewServer
    /\ requestVersions = LockRequestVersions
    /\ registry = RegistryVersions
    /\ registryStatuses = DefaultStatuses
    /\ schemaFaults = DefaultSchemaFaults
    /\ archives = DefaultArchives
    /\ NoClient
    /\ NoTypes
    /\ rVersions = << >>
    /\ rConstraints = NilConstraints
    /\ rResult = NoResult

\* The Go scheduler runs every runnable goroutine, and the external calls
\* return: a goroutine that can step does step.  A goroutine parked on the
\* mutex is runnable again each time the lock is free.
LockSpec == LockInit /\ [][Next]_vars /\ \A t \in Threads : WF_vars(ThreadNext(t))

\* ------------------------------------------------------------------------
\* The Server with a provider that can answer no schema
\* ------------------------------------------------------------------------
\* universalProvider is an interface: schema() may fail, or return nil and no
\* error.
SchemaFaults == { "failed to get provider schema", "provider schema is nil" }

SubprocessInit ==
    /\ NewServer
    /\ requestVersions = CleanupRequestVersions
    /\ registry = RegistryVersions
    /\ registryStatuses = DefaultStatuses
    /\ schemaFaults = SchemaFaults
    /\ archives = DefaultArchives
    /\ NoClient
    /\ NoTypes
    /\ rVersions = << >>
    /\ rConstraints = NilConstraints
    /\ rResult = NoResult

SubprocessSpec == SubprocessInit /\ [][Next]_vars

\* ------------------------------------------------------------------------
\* The Server called by goroutine 1 only, against every archive
\* ------------------------------------------------------------------------
WalkInit ==
    /\ dlc = << >>
    /\ sc = << >>
    /\ versionsc = << >>
    /\ mu = [writer |-> NoThread, readers |-> {}]
    /\ tmpDir = ""
    /\ tmpExists = FALSE
    /\ cleanups = 0
    /\ extractDirs = {}
    /\ unpacked = << >>
    /\ th = [t \in Threads |-> IF t = 1 THEN IdleThread ELSE [IdleThread EXCEPT !.pc = "done"]]
    /\ results = {}
    /\ downloadCalls = 0
    /\ schemaCalls = 0
    /\ procs = {}
    /\ faults = 0
    /\ crashed = FALSE
    /\ requestVersions = CleanupRequestVersions
    /\ registry = RegistryVersions
    /\ registryStatuses = DefaultStatuses
    /\ schemaFaults = DefaultSchemaFaults
    /\ archives = Listings
    /\ NoClient
    /\ NoTypes
    /\ rVersions = << >>
    /\ rConstraints = NilConstraints
    /\ rResult = NoResult

WalkSpec == WalkInit /\ [][Next]_vars

\* ------------------------------------------------------------------------
\* The versions harness: GetAvailableVersions called by every goroutine,
\* against each body and status of the registry
\* ------------------------------------------------------------------------
\* The bodies of the versions response: those of the fixVersion harness and
\* one with a version string that does not parse.
VersionsBodies == RegistryBodies \cup { << "1.5.0", "not-a-version", "1.0.0" >> }

VersionsInit ==
    /\ NewServer
    /\ requestVersions = RequestVersions
    /\ registry \in VersionsBodies
    /\ registryStatuses = FixStatuses
    /\ schemaFaults = DefaultSchemaFaults
    /\ archives = DefaultArchives
    /\ NoClient
    /\ NoTypes
    /\ rVersions = << >>
    /\ rConstraints = NilConstraints
    /\ rResult = NoResult

VersionsNext ==
    \E t \in Threads :
        \/ CallGetAvailableVersions(t)
        \/ AvRLock(t) \/ AvCheck(t) \/ AvLock(t) \/ AvStore(t)

VersionsSpec == VersionsInit /\ [][VersionsNext]_vars

\* ------------------------------------------------------------------------
\* The decoder harness: decodeCtyTypeFromJSONBytes called on its own, on
\* every signature of bounded nesting
\* ------------------------------------------------------------------------
TypeInit ==
    /\ tbuf \in TypeLeaves
    /\ tres = NoTypeResult
    /\ wcats = [ResourceSchemas |-> NoNames, DataSourceSchemas |-> NoNames,
                EphemeralResourceSchemas |-> NoNames, Functions |-> NoNames]
    /\ NoClient
    /\ NewServer
    /\ requestVersions = RequestVersions
    /\ registry = RegistryVersions
    /\ registryStatuses = DefaultStatuses
    /\ schemaFaults = DefaultSchemaFaults
    /\ archives = DefaultArchives
    /\ rVersions = << >>
    /\ rConstraints = NilConstraints
    /\ rResult = NoResult

TypeNext == WrapType \/ CallDecode

TypeSpec == TypeInit /\ [][TypeNext]_vars

\* ------------------------------------------------------------------------
\* The translation harness: schema() of a client bound to one generation,
\* against a provider whose response has every shape of the four
\* categories and whose attributes and functions carry one signature
\* ------------------------------------------------------------------------
\* The signatures of the harness: none, three that do not decode, and one
\* of each path that does.
TypeSamples ==
    { JEmpty, JInvalid, JStr("foo"), JObj([list |-> JStr("foo")]),
      JStr("string"), JArr(<< JStr("list"), JStr("number") >>),
      JObj([list |-> JStr("string")]) }

\* One category of the response: a nil map, an empty map, one name, two.
CategoryShapes == { NoNames, Named({}), Named({"x"}), Named({"x", "y"}) }

TranslateInit ==
    /\ tbuf \in TypeSamples
    /\ tres = NoTypeResult
    /\ wcats \in [ResourceSchemas : CategoryShapes, DataSourceSchemas : CategoryShapes,
                   EphemeralResourceSchemas : CategoryShapes, Functions : CategoryShapes]
    /\ uc \in { [v5 |-> TRUE, v6 |-> FALSE, closeFunc |-> TRUE],
                 [v5 |-> FALSE, v6 |-> TRUE, closeFunc |-> TRUE] }
    /\ proc = "running"
    /\ wire = AttrBlock(<< Attribute("a", tbuf, TRUE, "MARKDOWN"),
                           Attribute("b", JStr("number"), FALSE, "PLAIN") >>)
    /\ cpc = "idle"
    /\ rpcLog = << >>
    /\ cres = NoSchemaResult
    /\ closes = 0
    /\ launches = << >>
    /\ NewServer
    /\ requestVersions = RequestVersions
    /\ registry = RegistryVersions
    /\ registryStatuses = DefaultStatuses
    /\ schemaFaults = DefaultSchemaFaults
    /\ archives = DefaultArchives
    /\ rVersions = << >>
    /\ rConstraints = NilConstraints
    /\ rResult = NoResult

TranslateNext == CallSchema \/ SchemaV6 \/ SchemaV5

TranslateSpec == TranslateInit /\ [][TranslateNext]_vars

\* ------------------------------------------------------------------------
\* The attribute harness: schema() of a client bound to one generation,
\* against a provider whose attribute carries every combination of type
\* bytes and nested type, within blocks of every nesting
\* ------------------------------------------------------------------------
\* Type bytes: none, bytes that do not decode, bytes that do.
AttributeTypes == { JEmpty, JInvalid, JStr("string") }

\* Nested types of an attribute: none, or an object in any nesting mode with
\* one attribute that has type bytes, a nested type without attributes, both
\* or neither.
WireObjects ==
    { NilObject } \cup
    { SchemaObject(nesting, << NestedAttribute("i", type, inner) >>) :
        nesting \in ObjectNestingModes, type \in AttributeTypes,
        inner \in { NilObject, SchemaObject("LIST", << >>) } }

AttributeInit ==
    /\ tbuf \in AttributeTypes
    /\ tres = NoTypeResult
    /\ wcats = [ResourceSchemas |-> Named({"x"}), DataSourceSchemas |-> Named({"x"}),
                EphemeralResourceSchemas |-> Named({"x"}), Functions |-> Named({"x"})]
    /\ uc \in { [v5 |-> TRUE, v6 |-> FALSE, closeFunc |-> TRUE],
                 [v5 |-> FALSE, v6 |-> TRUE, closeFunc |-> TRUE] }
    /\ proc = "running"
    /\ \E nestedType \in WireObjects :
          wire = AttrBlock(<< NestedAttribute("a", tbuf, nestedType),
                              Attribute("b", JStr("number"), TRUE, "MARKDOWN") >>)
    /\ cpc = "idle"
    /\ rpcLog = << >>
    /\ cres = NoSchemaResult
    /\ closes = 0
    /\ launches = << >>
    /\ NewServer
    /\ requestVersions = RequestVersions
    /\ registry = RegistryVersions
    /\ registryStatuses = DefaultStatuses
    /\ schemaFaults = DefaultSchemaFaults
    /\ archives = DefaultArchives
    /\ rVersions = << >>
    /\ rConstraints = NilConstraints
    /\ rResult = NoResult

AttributeNext == WrapBlock \/ CallSchema \/ SchemaV6 \/ SchemaV5

AttributeSpec == AttributeInit /\ [][AttributeNext]_vars

\* ------------------------------------------------------------------------
\* Properties of the Server (checked under Spec)
\* ------------------------------------------------------------------------
Done(t) == th[t].pc = "done"

\* C1: when every caller ran the same accessor with the identical request on
\* a fresh Server and no collaborator failed, the download ran exactly once
\* and the schema fetch ran exactly once.
C1_ExactlyOneDownloadAndFetch ==
    ( /\ ~crashed
      /\ faults = 0
      /\ \A t \in Threads : Done(t)
      /\ \A r \in results : r.op = "GetResourceSchema"
      /\ \A r, q \in results : r.arg = q.arg )
    => (downloadCalls = 1 /\ schemaCalls = 1)

\* C2: an accessor called with an empty or constraint version returns the
\* named schema, the not-found error or the fetch error; it never
\* dereferences a missing schema-cache entry.
C2_AccessorFindsResolvedEntry ==
    \A r \in results :
        (r.op = "GetResourceSchema" /\ ~fixedVersion(r.arg))
        => r.err \in { NoErr, << "resource schema not found" >> }
           \/ Head(r.err) = "failed to read provider schema"

\* C3: a Get called after a Get for the same resolved version succeeded never
\* contacts the download registry again and returns success.
C3_LaterGetIsCacheHit ==
    /\ \A t \in Threads :
          (th[t].op = "Get" /\ th[t].hit) => th[t].pc \notin DownloadSection
    /\ \A r \in results :
          (r.op = "Get" /\ r.hit /\ faults = 0) => r.err = NoErr

\* C4: at most one download is in flight at any moment: the goroutine in the
\* download section holds the write lock, no other goroutine is in the
\* section or holds the lock, and a concurrent Get for the identical
\* resolved request waits at a lock acquisition.
C4_OneDownloadInFlight ==
    \A t \in Threads :
        th[t].pc \in DownloadSection =>
            /\ mu.writer = t
            /\ mu.readers = {}
            /\ \A u \in Threads \ {t} :
                  /\ th[u].pc \notin DownloadSection
                  /\ th[u].getReq = th[t].getReq
                     => th[u].pc \in {"get_rlock", "get_lock"}

\* Witness of C4: one goroutine downloads while another Get for the identical
\* resolved request waits for the write lock.
C4_Witness ==
    \E t, u \in Threads :
        /\ t # u
        /\ th[t].pc = "get_download"
        /\ th[u].pc = "get_lock"
        /\ th[u].getReq = th[t].getReq

\* C5: at most one schema fetch (subprocess launched, schema RPC pending) is
\* in flight for a given resolved request.
C5_OneSchemaFetchInFlight ==
    \A t, u \in Threads :
        (t # u /\ th[t].pc = "gs_schema" /\ th[u].pc = "gs_schema")
        => th[t].gsReq # th[u].gsReq

\* C6: once Get holds the write lock, no download step runs while the
\* download cache already holds an entry for the resolved request.
C6_NoDownloadWhenCached ==
    \A t \in Threads :
        th[t].pc \in DownloadSection => th[t].getReq \notin DOMAIN dlc

\* ------------------------------------------------------------------------
\* Properties of GetLatestVersionMatch (checked under ResolverSpec)
\* ------------------------------------------------------------------------
Called == rResult # NoResult

Elements(vs) == { vs[i] : i \in 1..Len(vs) }

\* Ascending order, stated on every pair of positions.
Ascending(vs) == \A i, j \in 1..Len(vs) : i < j => Compare(vs[i], vs[j]) <= 0

NoConstraint(cs) == cs.isNil \/ cs.list = << >>

\* C7: for a non-empty ascending list and a nil or empty constraint set the
\* result is the last element, which no element exceeds.
C7_NoConstraintGivesMax ==
    (Called /\ rVersions # << >> /\ Ascending(rVersions) /\ NoConstraint(rConstraints))
    => /\ rResult.err = ""
       /\ rResult.v = rVersions[Len(rVersions)]
       /\ \A w \in Elements(rVersions) : Compare(w, rResult.v) <= 0

C7_Witness ==
    /\ Called /\ Len(rVersions) >= 2 /\ Ascending(rVersions)
    /\ rVersions[1] # rVersions[Len(rVersions)]
    /\ ~rConstraints.isNil /\ rConstraints.list = << >>
    /\ rResult = Ok(rVersions[Len(rVersions)])

\* C8: for an ascending list and a non-empty constraint set, a successful
\* result satisfies the constraints and no greater element does; when no
\* element satisfies them the call fails.
C8_HighestSatisfying ==
    (Called /\ Ascending(rVersions) /\ ~NoConstraint(rConstraints))
    => /\ rResult.err = ""
          => /\ rResult.v \in Elements(rVersions)
             /\ Check(rConstraints, rResult.v)
             /\ \A w \in Elements(rVersions) :
                   Compare(w, rResult.v) > 0 => ~Check(rConstraints, w)
       /\ (\A w \in Elements(rVersions) : ~Check(rConstraints, w))
          => (rResult.err # "" /\ rResult.v = NilVersion)

C8_Witness ==
    /\ Called /\ Ascending(rVersions) /\ ~NoConstraint(rConstraints)
    /\ \E i, j \in 1..Len(rVersions) :
          /\ i < j /\ j < Len(rVersions)
          /\ rVersions[i] # rVersions[j]
          /\ Check(rConstraints, rVersions[i])
          /\ Check(rConstraints, rVersions[j])
          /\ rResult = Ok(rVersions[j])

\* C9: a list that is not ascending always fails with the not-sorted error
\* and no version, whatever the constraints.
C9_UnsortedFails ==
    (Called /\ ~Ascending(rVersions))
    => rResult = Err(ErrNotSorted)

C9_Witness ==
    /\ Called /\ ~Ascending(rVersions) /\ rConstraints.isNil
    /\ rResult = Err(ErrNotSorted)

\* C10: an empty list always fails, whatever the constraints.
C10_EmptyFails ==
    (Called /\ rVersions = << >>)
    => (rResult.err # "" /\ rResult.v = NilVersion)

C10_Witness ==
    /\ Called /\ rVersions = << >> /\ rConstraints.isNil
    /\ rResult = Err(ErrNoVersions)

\* ------------------------------------------------------------------------
\* Properties of fixVersion (checked under FixSpec)
\* ------------------------------------------------------------------------
IsExact(version) == NewVersion(version) # NilVersion

IsConstraint(version) == ~IsExact(version) /\ NewConstraint(version).err = ""

Malformed(version) == ~IsExact(version) /\ NewConstraint(version).err # ""

\* The versions the registry lists.
Available == { NewVersion(registry[i]) : i \in 1..Len(registry) }

Highest(S) == CHOOSE m \in S : \A w \in S : Compare(w, m) <= 0

Mentions(err, msg) == \E i \in 1..Len(err) : err[i] = msg

RegistryFailed(err) == Mentions(err, "failed to get available versions")

\* What fixVersion has returned so far, with the Version it was called on:
\* to calls still running (which went on, so it returned no error) and to
\* calls that have returned.
FixOutcomes ==
    { [arg |-> th[t].arg, fix |-> th[t].fix, err |-> NoErr] :
          t \in { u \in Threads : th[u].op # Nil /\ th[u].fix # Nil } }
    \cup { [arg |-> r.arg, fix |-> r.fix, err |-> r.err] :
              r \in { q \in results : q.fix # Nil } }

\* C11: for a Version that is neither an exact version nor a parseable
\* constraint, fixVersion reports no parse error and returns the highest
\* version the registry lists; it fails only when the versions cannot be
\* had or there are none.
C11_MalformedResolvesToLatest ==
    \A o \in FixOutcomes :
        Malformed(o.arg) =>
            /\ ~Mentions(o.err, "Malformed constraint")
            /\ IF RegistryFailed(o.err) \/ Available = {}
               THEN o.fix = "" /\ Mentions(o.err, "failed to get latest version")
               ELSE o.fix = VersionString(Highest(Available))

C11_Witness ==
    \E r \in results :
        /\ r.op = "Get" /\ r.arg = "invalid-constraint"
        /\ registry = RegistryVersions
        /\ r.fix = "2.0.0" /\ r.err = NoErr

\* C12: for a Version that is a parseable constraint, fixVersion returns the
\* highest listed version that satisfies it (">=1.0.0,<2.0.0" against
\* 0.9.0, 1.0.0, 1.5.0, 2.0.0 gives "1.5.0"); when none satisfies it, an
\* error and the zero Request.
C12_ConstraintResolvesToHighestMatch ==
    \A o \in FixOutcomes :
        IsConstraint(o.arg) =>
            LET sat == { w \in Available : Check(NewConstraint(o.arg).c, w) }
            IN  /\ IF RegistryFailed(o.err) \/ sat = {}
                   THEN o.fix = "" /\ Mentions(o.err, "failed to get latest version")
                   ELSE o.fix = VersionString(Highest(sat))
                /\ ( /\ o.arg = ">=1.0.0,<2.0.0"
                     /\ registry = << "0.9.0", "1.0.0", "1.5.0", "2.0.0" >>
                     /\ ~RegistryFailed(o.err) )
                   => o.fix = "1.5.0"

C12_Witness ==
    \E r \in results :
        /\ r.op = "GetResourceSchema" /\ r.arg = ">=1.0.0,<2.0.0"
        /\ registry = << "0.9.0", "1.0.0", "1.5.0", "2.0.0" >>
        /\ r.fix = "1.5.0"

\* C13: for a Version that parses as an exact version (a "v" prefix and a
\* prerelease suffix included) fixVersion returns the Version unchanged, the
\* call never enters GetAvailableVersions, and while only such calls were
\* made the versions cache stays empty.
C13_ExactVersionUnchanged ==
    /\ \A t \in Threads :
          (th[t].op \in {"Get", "GetResourceSchema"} /\ IsExact(th[t].arg))
          => /\ th[t].pc \notin {"av_rlock", "av_check", "av_lock", "av_store"}
             /\ th[t].fix \in {Nil, th[t].arg}
    /\ \A r \in results :
          (r.op \in {"Get", "GetResourceSchema"} /\ IsExact(r.arg))
          => r.fix \in {Nil, r.arg}
    /\ ( /\ \A t \in Threads : th[t].op # Nil =>
                (th[t].op # "GetAvailableVersions" /\ IsExact(th[t].arg))
         /\ \A r \in results : r.op # "GetAvailableVersions" /\ IsExact(r.arg) )
       => versionsc = << >>

C13_Witness ==
    \E r \in results :
        /\ r.op = "Get" /\ r.arg \in {"v1.5.0", "1.5.0-beta.1"}
        /\ r.fix = r.arg /\ r.err = NoErr
        /\ versionsc = << >>

\* ------------------------------------------------------------------------
\* Properties of the universal provider client (checked under ClientSpec)
\* ------------------------------------------------------------------------
SchemaReturned == cpc = "done"

\* The RPC of generation gen was sent and returned an error.
RpcFailed(gen) == \E i \in 1..Len(rpcLog) : rpcLog[i].gen = gen /\ rpcLog[i].err # NoErr

\* The RPC of generation gen was sent and returned a response and no error.
RpcAnswered(gen) ==
    \E i \in 1..Len(rpcLog) :
        rpcLog[i].gen = gen /\ rpcLog[i].err = NoErr /\ ~rpcLog[i].nilResp

\* C14: schema() sends the v6 RPC first, and the v5 RPC only when v6 is not
\* bound or its RPC has failed; when the v6 RPC failed and the v5 RPC
\* answered, schema() returns the schema converted from the v5 response and
\* no error.
C14_V6FirstThenV5 ==
    /\ [][ (rpcLog' # rpcLog) =>
              /\ rpcLog' = Append(rpcLog, rpcLog'[Len(rpcLog')])
              /\ rpcLog'[Len(rpcLog')].gen = 6 => (rpcLog = << >> /\ uc.v6)
              /\ rpcLog'[Len(rpcLog')].gen = 5 =>
                    \/ rpcLog = << >> /\ ~uc.v6
                    \/ Len(rpcLog) = 1 /\ rpcLog[1].gen = 6 /\ rpcLog[1].err # NoErr ]_vars
    /\ []( (SchemaReturned /\ RpcFailed(6) /\ RpcAnswered(5)) =>
              /\ cres.err = NoErr
              /\ ~cres.ps.isNil
              /\ cres.ps = convertV5ResponseToTFJSON(ProviderResponse(5)).ps
              /\ cres.ps.ConfigSchema.Version = 5 )

C14_Witness ==
    /\ SchemaReturned
    /\ Len(rpcLog) = 2
    /\ rpcLog[1].gen = 6 /\ rpcLog[1].err = RpcError(6)
    /\ rpcLog[2].gen = 5 /\ rpcLog[2].err = NoErr /\ ~rpcLog[2].nilResp
    /\ cres.err = NoErr /\ cres.ps.ConfigSchema.Version = 5

\* C15: when both schema RPCs failed, schema() returns no schema and an
\* error that names the v6 failure and the v5 failure.
C15_CombinedErrorNamesBoth ==
    (SchemaReturned /\ RpcFailed(6) /\ RpcFailed(5)) =>
        /\ cres.ps.isNil
        /\ Mentions(cres.err, "v6 error")
        /\ Mentions(cres.err, "v5 error")

\* C19: once close() has been called the client holds neither generation
\* handle and its subprocess does not run, and every further close() leaves
\* the client, the subprocess and what schema() returned as they are.
C19_CloseIdempotent ==
    /\ [](closes >= 1 => (~uc.v5 /\ ~uc.v6 /\ proc # "running"))
    /\ [][ (closes >= 1 /\ closes' = closes + 1) =>
              (uc' = uc /\ proc' = proc /\ cres' = cres /\ rpcLog' = rpcLog) ]_vars

C19_Witness ==
    /\ closes = MaxCloses
    /\ rpcLog # << >>
    /\ proc = "killed"
    /\ ~uc.v5 /\ ~uc.v6

\* The canonical nesting mode the spec gives for a wire nesting mode.
ExpectedMode(nesting) ==
    IF nesting \in {"SINGLE", "GROUP", "LIST", "SET", "MAP"}
    THEN [SINGLE |-> "single", GROUP |-> "group", LIST |-> "list",
          SET |-> "set", MAP |-> "map"][nesting]
    ELSE "single"

\* Canonical block c carries, level by level, the nested blocks of wire
\* block w with the expected nesting modes.
RECURSIVE ModesOk(_, _)
ModesOk(w, c) ==
    IF w.isNil THEN c.isNil
    ELSE /\ ~c.isNil
         /\ DOMAIN c.NestedBlocks = { w.BlockTypes[i].TypeName : i \in 1..Len(w.BlockTypes) }
         /\ \A i \in 1..Len(w.BlockTypes) :
               LET nb == w.BlockTypes[i]
               IN  /\ c.NestedBlocks[nb.TypeName].NestingMode = ExpectedMode(nb.Nesting)
                   /\ ModesOk(nb.Block, c.NestedBlocks[nb.TypeName].Block)

\* C20: whichever generation answered, schema() returns no error for any
\* nesting mode, and every nested block of the wire block is translated with
\* the mode of the same name, or single when the wire mode is invalid, unset
\* or unrecognized.
C20_NestingModeLenient ==
    (SchemaReturned /\ (RpcAnswered(6) \/ RpcAnswered(5))) =>
        /\ cres.err = NoErr
        /\ ModesOk(wire, cres.ps.ConfigSchema.Block)

C20_Witness ==
    /\ SchemaReturned /\ RpcAnswered(6)
    /\ wire = Block(<< NestedBlock("nb", "7",
                         Block(<< NestedBlock("nb", "GROUP", NilBlock) >>)) >>)
    /\ cres.err = NoErr
    /\ cres.ps.ConfigSchema.Block.NestedBlocks["nb"].NestingMode = "single"
    /\ cres.ps.ConfigSchema.Block.NestedBlocks["nb"].Block.NestedBlocks["nb"].NestingMode = "group"

\* ------------------------------------------------------------------------
\* Properties of the accessors and of Cleanup
\* ------------------------------------------------------------------------
\* C16 (checked under Spec): an accessor returns the named schema and no
\* error when the provider has the name, nil and the not-found error when it
\* has not, and nil and "failed to read provider schema" only when the fetch
\* failed; the three are told apart.
C16_NotFoundDistinctFromFetchFailed ==
    \A r \in results :
        r.op = "GetResourceSchema" =>
            \/ /\ r.err = NoErr
               /\ r.name \in ProviderSchema.ResourceSchemas
               /\ r.val = r.name
            \/ /\ r.err = << "resource schema not found" >>
               /\ r.name \notin ProviderSchema.ResourceSchemas
               /\ r.val = Nil
            \/ /\ Head(r.err) = "failed to read provider schema"
               /\ Len(r.err) > 1
               /\ r.val = Nil

\* C17 (checked under CleanupSpec): Cleanup leaves the download cache and
\* the schema cache empty, so neither cache ever holds an entry whose files
\* have been removed, and a Get that found its key cached has its files.
C17_CleanupClearsCaches ==
    /\ [][ (cleanups' = cleanups + 1) => (dlc' = << >> /\ sc' = << >>) ]_vars
    /\ [](\A k \in DOMAIN dlc \cup DOMAIN sc : tmpExists /\ k \in extractDirs)

\* C18 (checked under CleanupSpec): after Cleanup the temporary directory
\* and what was under it are gone and nothing has panicked; a Cleanup on a
\* Server whose directory is gone already, or that never had one, changes
\* nothing of the Server, its files or its running calls.
C18_CleanupIdempotent ==
    [][ (cleanups' = cleanups + 1) =>
          /\ ~tmpExists' /\ extractDirs' = {}
          /\ crashed' = crashed
          /\ ~tmpExists =>
                UNCHANGED <<dlc, sc, versionsc, mu, tmpDir, tmpExists, extractDirs,
                            th, downloadCalls, schemaCalls, faults>> ]_vars

C18_Witness ==
    /\ cleanups = MaxCleanups
    /\ ~crashed
    /\ \E r, q \in results :
          /\ r.op = "Cleanup" /\ r.arg # "" /\ r.val = "removed"
          /\ q.op = "Cleanup" /\ q.arg # "" /\ q.val = "nothing to remove"

\* ------------------------------------------------------------------------
\* Properties of the translation (checked under TranslateSpec)
\* ------------------------------------------------------------------------
\* schema() returned after an RPC that answered with a response.
Translated == SchemaReturned /\ (RpcAnswered(5) \/ RpcAnswered(6))

\* The signature of the harness is not empty and does not decode.
Undecodable == tbuf.j # "empty" /\ decodeCtyTypeFromJSONBytes(tbuf).err # NoErr

\* C21: when the non-empty type bytes of an attribute, a function parameter
\* or a function return do not decode, the conversion still succeeds and
\* the entry is there with no type, its other fields translated, and so
\* are its siblings.
C21_UndecodableTypeLeftAbsent ==
    (Translated /\ Undecodable) =>
        /\ cres.err = NoErr
        /\ ~cres.ps.isNil
        /\ LET attrs == cres.ps.ConfigSchema.Block.Attributes
           IN  /\ ~attrs.isNil
               /\ DOMAIN attrs.m = {"a", "b"}
               /\ attrs.m["a"].AttributeType = NilType
               /\ attrs.m["a"].Required
               /\ attrs.m["a"].DescriptionKind = "markdown"
               /\ attrs.m["b"].AttributeType = [k |-> "number"]
               /\ ~attrs.m["b"].Required
        /\ \A n \in wcats.ResourceSchemas.names :
              DOMAIN cres.ps.ResourceSchemas.m[n].Block.Attributes.m = {"a", "b"}
        /\ DOMAIN cres.ps.Functions.m = wcats.Functions.names
        /\ \A n \in wcats.Functions.names :
              LET f == cres.ps.Functions.m[n]
              IN  /\ ~f.isNil
                  /\ f.Summary = "summary"
                  /\ Len(f.Parameters) = 2
                  /\ f.Parameters[1].Name = "p" /\ f.Parameters[1].Type = NilType
                  /\ f.Parameters[2].Name = "q" /\ f.Parameters[2].Type = [k |-> "string"]
                  /\ f.VariadicParameter.Name = "v" /\ f.VariadicParameter.Type = NilType
                  /\ f.ReturnType = NilType

C21_Witness ==
    /\ Translated /\ Undecodable
    /\ tbuf = JObj([list |-> JStr("foo")])
    /\ wcats.Functions.names = {"x", "y"}
    /\ wcats.ResourceSchemas.names = {"x"}
    /\ cres.err = NoErr
    /\ cres.ps.ConfigSchema.Block.Attributes.m["a"].AttributeType = NilType
    /\ cres.ps.Functions.m["x"].ReturnType = NilType

Categories ==
    { "ResourceSchemas", "DataSourceSchemas", "EphemeralResourceSchemas", "Functions" }

\* C22: in the schema converted from a response of either generation, a
\* category whose wire map is nil or empty is nil, and any other category
\* has exactly the wire map's names as keys.
C22_AbsentCategoriesAreNil ==
    Translated =>
        /\ cres.err = NoErr
        /\ \A c \in Categories :
              IF wcats[c].isNil \/ wcats[c].names = {}
              THEN cres.ps[c].isNil
              ELSE ~cres.ps[c].isNil /\ DOMAIN cres.ps[c].m = wcats[c].names

C22_Witness ==
    /\ Translated
    /\ RpcAnswered(5)
    /\ wcats.ResourceSchemas = Named({"x", "y"})
    /\ wcats.DataSourceSchemas = Named({})
    /\ wcats.EphemeralResourceSchemas = NoNames
    /\ wcats.Functions = Named({"x"})
    /\ DOMAIN cres.ps.ResourceSchemas.m = {"x", "y"}
    /\ cres.ps.DataSourceSchemas.isNil
    /\ cres.ps.EphemeralResourceSchemas.isNil

\* ------------------------------------------------------------------------
\* Properties of the type-signature decoder (checked under TypeSpec)
\* ------------------------------------------------------------------------
\* decodeCtyTypeFromJSONBytes has returned.
Decoded == tres # NoTypeResult

PrimitiveNames == {"string", "number", "bool"}

\* The strings of a signature that stand where a type is expected: every
\* string but the first item of an array, which names the kind.
RECURSIVE TypeNames(_)
TypeNames(doc) ==
    IF doc.j = "string" THEN {doc.s}
    ELSE IF doc.j = "array"
    THEN UNION { TypeNames(doc.items[i]) : i \in 2..Len(doc.items) }
    ELSE IF doc.j = "object"
    THEN UNION { TypeNames(doc.m[n]) : n \in DOMAIN doc.m }
    ELSE {}

\* The strict path refuses the signature.
StrictFails == UnmarshalType(tbuf).err # NoErr

\* C23 as stated: decodeCtyTypeFromJSONBytes fails on empty input and
\* whenever a name other than string, number or bool stands for a
\* primitive, whichever path decodes.
C23_UnknownPrimitiveFails ==
    Decoded =>
        /\ tbuf.j = "empty" => (tres.err # NoErr /\ tres.ty = NilType)
        /\ (\E s \in TypeNames(tbuf) : s \notin PrimitiveNames) => tres.err # NoErr

\* C23, amended: decodeCtyTypeFromJSONBytes fails on empty input; it fails
\* whenever a name other than string, number, bool or dynamic stands for a
\* type; and when the strict path has refused the signature it fails
\* whenever a name other than string, number or bool does.
C23_UnknownPrimitiveFailsButDynamic ==
    Decoded =>
        /\ tbuf.j = "empty" => (tres.err # NoErr /\ tres.ty = NilType)
        /\ (\E s \in TypeNames(tbuf) : s \notin PrimitiveNames \cup {"dynamic"})
              => tres.err # NoErr
        /\ (StrictFails /\ \E s \in TypeNames(tbuf) : s \notin PrimitiveNames)
              => tres.err # NoErr

C23_Witness ==
    /\ Decoded
    /\ tbuf = JObj([object |-> JObj([a |-> JStr("dynamic"), b |-> JStr("bool")])])
    /\ StrictFails
    /\ tres.err = << "unsupported primitive type" >>

\* A primitive's name as a JSON string.
IsPrimitiveName(doc) == doc.j = "string" /\ doc.s \in PrimitiveNames

\* The single-key objects {list|set|map: primitive} and
\* {object: {name: primitive}}.
TolerantForm(doc) ==
    /\ doc.j = "object"
    /\ Cardinality(DOMAIN doc.m) = 1
    /\ LET k == CHOOSE key \in DOMAIN doc.m : TRUE
       IN  \/ k \in {"list", "set", "map"} /\ IsPrimitiveName(doc.m[k])
           \/ /\ k = "object"
              /\ doc.m[k].j = "object"
              /\ \A n \in DOMAIN doc.m[k].m : IsPrimitiveName(doc.m[k].m[n])

\* C24: when the strict path refuses the signature, the decoder succeeds
\* exactly on the single-key objects {list|set|map: primitive} and
\* {object: {name: primitive}}; {"list":"string"} gives list(string) and
\* {"object":{"a":"number"}} gives object({a: number}); deeper nesting,
\* several keys and unknown keys fail.
C24_TolerantFallbackForms ==
    (Decoded /\ StrictFails) =>
        /\ (tres.err = NoErr) <=> TolerantForm(tbuf)
        /\ tbuf = JObj([list |-> JStr("string")])
              => tres.ty = [k |-> "list", ety |-> [k |-> "string"]]
        /\ tbuf = JObj([object |-> JObj([a |-> JStr("number")])])
              => tres.ty = [k |-> "object", attrs |-> [a |-> [k |-> "number"]]]
        /\ tbuf = JObj([set |-> JObj([list |-> JStr("string")])]) => tres.err # NoErr
        /\ tbuf = JObj([list |-> JStr("string"), set |-> JStr("string")]) => tres.err # NoErr
        /\ tbuf = JObj([foo |-> JStr("string")]) => tres.err # NoErr

C24_Witness ==
    /\ Decoded /\ StrictFails
    /\ tbuf = JObj([object |-> JObj([a |-> JStr("number")])])
    /\ tres = [ty |-> [k |-> "object", attrs |-> [a |-> [k |-> "number"]]], err |-> NoErr]

\* The strict form of a type: a bare string, [kind, element],
\* ["object", {name: type}].
RECURSIVE StrictForm(_)
StrictForm(ty) ==
    IF ty.k \in PrimitiveNames THEN JStr(ty.k)
    ELSE IF ty.k \in {"list", "set", "map"}
    THEN JArr(<< JStr(ty.k), StrictForm(ty.ety) >>)
    ELSE JArr(<< JStr("object"),
                 JObj([n \in DOMAIN ty.attrs |-> StrictForm(ty.attrs[n])]) >>)

\* The primitives, the one-level containers and the objects of lists.
RoundTripTypes ==
    LET prims == { [k |-> p] : p \in PrimitiveNames }
        conts == { [k |-> c, ety |-> p] : c \in {"list", "set", "map"}, p \in prims }
        lists == { t \in conts : t.k = "list" }
    IN  prims \cup conts
          \cup { [k |-> "object", attrs |-> [n \in {"a"} |-> l]] : l \in lists }

\* C25: a primitive, a one-level list, set or map, and an object of lists,
\* written in the strict form, decode to the same type.
C25_StrictRoundTrip ==
    Decoded => \A ty \in RoundTripTypes :
                  tbuf = StrictForm(ty) => tres = [ty |-> ty, err |-> NoErr]

C25_Witness ==
    /\ Decoded
    /\ tbuf = JArr(<< JStr("object"),
                      JObj([a |-> JArr(<< JStr("list"), JStr("number") >>)]) >>)
    /\ tres.err = NoErr
    /\ tres.ty = [k |-> "object", attrs |-> [a |-> [k |-> "list", ety |-> [k |-> "number"]]]]
    /\ tbuf = StrictForm(tres.ty)

\* ------------------------------------------------------------------------
\* Properties of the registry calls (checked under FixSpec and VersionsSpec)
\* ------------------------------------------------------------------------
\* C26: Get returns ErrPluginNotFound when the registry answers 404 for the
\* download metadata and ErrPluginApi for every other status that is not
\* 200, after the one request it sent.
C26_NotFoundAndApiErrors ==
    \A r \in results :
        (r.op = "Get" /\ r.status # NoResponse) =>
            /\ r.status = 404 => r.err = << ErrPluginNotFound >>
            /\ r.status # 404 => r.err = << ErrPluginApi >>
            /\ downloadCalls = 1

C26_Witness ==
    /\ downloadCalls = 1
    /\ \E r \in results :
          r.op = "Get" /\ r.arg = ">=1.0.0,<2.0.0" /\ r.status = 404
          /\ r.err = << ErrPluginNotFound >>

\* The results of the GetAvailableVersions calls that have returned.
VersionsResults == { r \in results : r.op = "GetAvailableVersions" }

\* A version string of the registry's body does not parse.
Unparseable == \E i \in 1..Len(registry) : NewVersion(registry[i]) = NilVersion

\* C27: GetAvailableVersions returns the registry's versions in ascending
\* order and caches that list; a call made once the list is cached returns
\* it with no registry lookup; a status that is not 200, a body that does
\* not decode and a version string that does not parse give an error and
\* leave the cache as it is.
C27_VersionsSortedAndCached ==
    /\ [](\A r \in VersionsResults :
             /\ r.err = NoErr =>
                   /\ Ascending(r.val)
                   /\ Elements(r.val) = Available
                   /\ Len(r.val) = Len(registry)
                   /\ "versions" \in DOMAIN versionsc /\ versionsc["versions"] = r.val
             /\ r.status # NoResponse => r.err = << "failed to get versions" >>
             /\ Unparseable => r.err # NoErr
             /\ r.err # NoErr => r.val = Nil)
    /\ [](Unparseable => versionsc = << >>)
    /\ [][ \A t \in Threads :
              /\ (th[t].pc = "av_check" /\ th'[t].pc = "done"
                     /\ \E r \in results' \ results : r.err # NoErr)
                    => versionsc' = versionsc
              /\ (th[t].pc = "av_check" /\ th'[t].pc # "av_check"
                     /\ "versions" \in DOMAIN versionsc)
                    => /\ th'[t].pc = "done"
                       /\ faults' = faults
                       /\ \E r \in results' :
                             r.op = "GetAvailableVersions" /\ r.err = NoErr
                             /\ r.val = versionsc["versions"] ]_vars

C27_Witness ==
    /\ registry = RegistryVersions
    /\ \A t \in Threads : th[t].pc = "done"
    /\ faults = 0
    /\ versionsc = [x \in {"versions"} |-> << <<1, 0, 0>>, <<1, 5, 0>>, <<2, 0, 0>> >>]
    /\ VersionsResults =
          { [IdleThread.res EXCEPT !.op = "GetAvailableVersions",
                                   !.val = << <<1, 0, 0>>, <<1, 5, 0>>, <<2, 0, 0>> >>] }

\* ------------------------------------------------------------------------
\* C28: lock discipline
\* ------------------------------------------------------------------------
\* Goroutine t holds the Server lock, shared or exclusive.
Holds(t) == t \in mu.readers \/ mu.writer = t

\* The places where a goroutine is about to call RLock or Lock.
AcquirePcs == { "av_rlock", "av_lock", "get_rlock", "get_lock", "gs_rlock", "gs_rlock2",
                "gs_lock", "acc_rlock", "acc_rlock2" }

Acquiring(t) == th[t].pc \in AcquirePcs

\* C28: a goroutine that is about to acquire the Server lock does not hold
\* it; a goroutine outside every Server operation (before its call, after
\* its return on any path) holds nothing; and, the external calls returning,
\* a goroutine that is about to acquire the lock gets past the acquisition
\* unless a panic has ended the process.
C28_LockReleasedNeverReentered ==
    /\ [](\A t \in Threads : Acquiring(t) => ~Holds(t))
    /\ [](\A t \in Threads : th[t].pc \in {"idle", "done"} => ~Holds(t))
    /\ \A t \in Threads : (Acquiring(t) ~> (~Acquiring(t) \/ crashed))

\* A goroutine has called Lock inside getSchema, with Get behind it, while
\* another goroutine holds the write lock.
C28_Witness ==
    \E t, u \in Threads :
       /\ t # u
       /\ th[t].pc = "gs_lock"
       /\ mu.writer = u
       /\ ~crashed

\* ------------------------------------------------------------------------
\* C29: the caches are read and written under the lock
\* ------------------------------------------------------------------------
\* Where a goroutine is about to read a cache: the checks of
\* GetAvailableVersions, Get, getSchema and the accessors, and the read of
\* the provider path.
ReadPcs == { "av_check", "get_check", "gs_check", "gs_path", "acc_check", "acc_read" }

\* Where a goroutine is about to write a cache (and read it back).
WritePcs == { "av_store", "get_download", "gs_store" }

\* Goroutine t takes a step.
Moves(t) == th'[t] # th[t]

\* C29: a goroutine about to read a cache holds the lock, shared or
\* exclusive; a goroutine about to write one holds it exclusively; every
\* step that changes a cache is taken by the goroutine holding the write
\* lock; and while one goroutine is about to write, no other goroutine is
\* about to read or write.
C29_CachesAccessedUnderLock ==
    /\ [](\A t \in Threads :
            /\ th[t].pc \in ReadPcs => (t \in mu.readers \/ mu.writer = t)
            /\ th[t].pc \in WritePcs => mu.writer = t)
    /\ [](\A t, u \in Threads :
            (t # u /\ th[t].pc \in WritePcs) => th[u].pc \notin ReadPcs \cup WritePcs)
    /\ [][(dlc' # dlc \/ sc' # sc \/ versionsc' # versionsc)
            => \E t \in Threads : mu.writer = t /\ th[t].pc \in WritePcs /\ Moves(t)]_vars

\* One goroutine is about to store a schema under the write lock while the
\* other, which has called RLock, waits to read a cache that is filled.
C29_Witness ==
    \E t, u \in Threads :
       /\ t # u
       /\ th[t].pc = "gs_store" /\ mu.writer = t
       /\ th[u].pc \in {"av_rlock", "get_rlock", "gs_rlock", "gs_rlock2", "acc_rlock", "acc_rlock2"}
       /\ DOMAIN dlc # {}

\* ------------------------------------------------------------------------
\* C30: getSchema leaves no provider subprocess behind
\* ------------------------------------------------------------------------
\* Goroutine t is inside getSchema, between newGrpcClient handing it a client
\* and the return.
HasClient(t) == th[t].pc \in {"gs_schema", "gs_lock", "gs_store"}

\* getSchema has returned an error with this message to a caller.
SchemaFailedWith(msg) == \E r \in results : Mentions(r.err, msg)

\* C30: the provider subprocess a goroutine launched in getSchema runs only
\* while that goroutine is inside getSchema with the client in hand; once
\* getSchema has returned, with a schema or with any error, it is not
\* running.
C30_SubprocessEndedOnReturn ==
    \A t \in Threads : t \in procs => HasClient(t)

\* Subprocesses were launched, getSchema has returned the nil-schema error to
\* one caller and a schema to another, and none is running.
C30_Witness ==
    /\ schemaCalls > 1
    /\ SchemaFailedWith("provider schema is nil")
    /\ \E r \in results : r.op = "GetResourceSchema" /\ r.err = NoErr
    /\ procs = {}

\* ------------------------------------------------------------------------
\* C31: a client is bound to one generation
\* ------------------------------------------------------------------------
\* C31: from the return of newGrpcClient until close(), exactly one of the
\* client's generation handles is set.
C31_BoundToOneGeneration ==
    (Launched /\ closes = 0) => (uc.v5 # uc.v6)

\* A client bound to v5 only has answered schema() and is not closed.
C31_Witness ==
    /\ Launched /\ closes = 0
    /\ uc.v5 /\ ~uc.v6
    /\ SchemaReturned /\ RpcAnswered(5)

\* ------------------------------------------------------------------------
\* C32: the connection fallback
\* ------------------------------------------------------------------------
\* The first attempt to start and connect the provider failed.
ConnectFailed ==
    launches # << >> /\ launches[1].err = << "failed to create RPC client" >>

\* C32: when the channel to the provider cannot be established, generation
\* v6 was attempted first and generation v5 once after it, and no further
\* attempt is made; when both failed the error names both failures.
C32_ConnectRetriedOnceV6ThenV5 ==
    ConnectFailed =>
        /\ Len(launches) = 2
        /\ launches[1].gens = {6}
        /\ launches[2].gens = {5}
        /\ (launches[2].err # NoErr =>
               Mentions(launches[2].err, "failed to connect with v6")
               /\ Mentions(launches[2].err, "failed to connect with v5"))

\* ------------------------------------------------------------------------
\* C33: cache keys are resolved requests
\* ------------------------------------------------------------------------
\* C33: every key of the download cache and of the schema cache has a
\* Version that parses as an exact version.
C33_CacheKeysResolved ==
    \A k \in DOMAIN dlc \cup DOMAIN sc : NewVersion(k) # NilVersion

\* The provider and its schema are cached under a version no caller passed:
\* the one a request without an exact version resolved to.
C33_Witness ==
    \E k \in DOMAIN sc :
       /\ k \in DOMAIN dlc
       /\ k \notin requestVersions

\* The entries of a listing that are files whose name starts with
\* "terraform-provider-" + request.Name.
Matching(listing) ==
    { i \in 1..Len(EntryNames) :
        listing[i] = "file" /\ HasPrefix(EntryNames[i], wantProviderFileName) }

\* C34: the path Get caches for a request is the first entry directly in the
\* extraction directory that is a file whose name starts with
\* "terraform-provider-" + request.Name, directories being passed over; when
\* the directory has no such entry, Get fails and caches no path.
C34_FirstMatchingFileCached ==
    \A k \in DOMAIN unpacked :
        LET m == Matching(unpacked[k])
        IN  IF m = {}
            THEN k \notin DOMAIN dlc
            ELSE /\ k \in DOMAIN dlc
                 /\ dlc[k] = << EntryNames[CHOOSE i \in m : \A j \in m : i <= j] >>

C34_Witness ==
    \E k \in DOMAIN dlc \cap DOMAIN unpacked :
        /\ unpacked[k][1] = "file"
        /\ unpacked[k][2] = "dir"
        /\ unpacked[k][3] = "file"
        /\ dlc[k] = << EntryNames[3] >>

C34_WitnessNotFound ==
    \E k \in DOMAIN unpacked :
        /\ unpacked[k][2] = "dir"
        /\ unpacked[k][4] = "file"
        /\ k \notin DOMAIN dlc
        /\ \E r \in results :
              Mentions(r.err, "provider file not found in extracted directory")

\* ------------------------------------------------------------------------
\* Properties of the translated attributes (checked under AttributeSpec)
\* ------------------------------------------------------------------------
\* Some attribute of a translated attribute map, at any depth of nested
\* types, has both AttributeType and AttributeNestedType set.
RECURSIVE BothSetIn(_)
BothSetIn(sas) ==
    /\ ~sas.isNil
    /\ \E n \in DOMAIN sas.m :
          LET sa == sas.m[n]
          IN  /\ ~sa.AttributeNestedType.isNil
              /\ \/ sa.AttributeType # NilType
                 \/ BothSetIn(sa.AttributeNestedType.Attributes)

\* The same for a translated block and its nested blocks.
RECURSIVE BothSetInBlock(_)
BothSetInBlock(sb) ==
    /\ ~sb.isNil
    /\ \/ BothSetIn(sb.Attributes)
       \/ \E n \in DOMAIN sb.NestedBlocks : BothSetInBlock(sb.NestedBlocks[n].Block)

\* Some wire attribute, at any depth of nested types, carries both type
\* bytes and a nested type.
RECURSIVE BothSent(_)
BothSent(attrs) ==
    \E i \in 1..Len(attrs) :
        /\ ~attrs[i].NestedType.isNil
        /\ \/ attrs[i].Type.j # "empty"
           \/ BothSent(attrs[i].NestedType.Attributes)

RECURSIVE BothSentInBlock(_)
BothSentInBlock(b) ==
    /\ ~b.isNil
    /\ \/ BothSent(b.Attributes)
       \/ \E i \in 1..Len(b.BlockTypes) : BothSentInBlock(b.BlockTypes[i].Block)

\* Some wire attribute of the block or its nested blocks has a nested type.
RECURSIVE HasNestedType(_)
HasNestedType(b) ==
    /\ ~b.isNil
    /\ \/ \E i \in 1..Len(b.Attributes) : ~b.Attributes[i].NestedType.isNil
       \/ \E i \in 1..Len(b.BlockTypes) : HasNestedType(b.BlockTypes[i].Block)

GetReturnsNil(t) ==
    \/ th'[t].pc = "gs_rlock2"
    \/ /\ th'[t].pc = "done"
       /\ Head(th[t].ret) = "top"
       /\ faults' = faults
       /\ \A r \in results' \ results : r.err = NoErr

\* C37: from the moment Get holds the write lock, no step changes the
\* download cache, the schema cache or the versions cache except Get's own
\* return of nil; on every error return of Get the three caches are as they
\* were when it took the lock.
C37_ErrorReturnLeavesCaches ==
    [][\A t \in Threads :
          th[t].pc = "get_download" =>
              (UNCHANGED <<dlc, sc, versionsc>> \/ GetReturnsNil(t))]_vars

\* Get has cached a path for one caller and returned the missing-executable
\* error to another, whose request has no entry; the versions cache was
\* filled before.
C37_Witness ==
    /\ \E r \in results :
          /\ r.op = "Get"
          /\ Mentions(r.err, "provider file not found in extracted directory")
    /\ \E r \in results : r.op = "Get" /\ r.err = NoErr
    /\ Cardinality(DOMAIN dlc) = 1
    /\ versionsc # << >>

\* ------------------------------------------------------------------------
\* C38: a cached schema has a cached download, and the caches only grow
\* ------------------------------------------------------------------------
\* The step removes no entry of the download cache or the schema cache.
CachesKept ==
    /\ DOMAIN dlc \subseteq DOMAIN dlc'
    /\ DOMAIN sc \subseteq DOMAIN sc'

\* C38: without Cleanup, every key of the schema cache is a key of the
\* download cache, and no step removes an entry of either cache.
C38_SchemaCachedAfterDownload ==
    /\ [](DOMAIN sc \subseteq DOMAIN dlc)
    /\ [][CachesKept]_vars

\* One provider version has its download and its schema cached, and a
\* second one its download only.
C38_Witness ==
    /\ Cardinality(DOMAIN sc) = 1
    /\ Cardinality(DOMAIN dlc) = 2
    /\ DOMAIN sc \subseteq DOMAIN dlc

\* ------------------------------------------------------------------------
\* C39: the versions cache holds ascending lists
\* ------------------------------------------------------------------------
\* C39: every list of the versions cache is in ascending order, whatever the
\* order of the registry's answer, and no call of the Server returns the
\* resolver's "versions are not sorted" error.
C39_CachedVersionsAscending ==
    /\ \A k \in DOMAIN versionsc : IsSortedFunc(versionsc[k])
    /\ \A r \in results : ~Mentions(r.err, ErrNotSorted)

\* The registry answered newest first; the list is cached and a constraint
\* was resolved from it to the highest version it admits.
C39_Witness ==
    /\ registry = RegistryVersions
    /\ ~IsSortedFunc(ParsedRegistryVersions)
    /\ versionsc # << >>
    /\ \E r \in results :
          r.op = "Get" /\ r.arg = ">=1.0.0,<2.0.0" /\ r.err = NoErr /\ r.fix = "1.5.0"

\* ------------------------------------------------------------------------
\* C40: a closed client sends nothing
\* ------------------------------------------------------------------------
\* C40: once close() has been called on the client, no step sends an RPC,
\* and a call of schema(), v5Schema() or v6Schema() that returns, returns an
\* error.
C40_ClosedClientSendsNothing ==
    [][closes >= 1 =>
          /\ rpcLog' = rpcLog
          /\ (cpc # "done" /\ cpc' = "done") => cres'.err # NoErr]_vars

\* The client newGrpcClient returned was closed, with its subprocess killed,
\* before schema() was called: schema() sent no RPC and returned its final
\* error.
C40_Witness ==
    /\ Launched /\ closes >= 1 /\ proc = "killed"
    /\ cpc = "done"
    /\ rpcLog = << >>
    /\ cres.err = << "failed to get provider schema for either V5 or V6 protocols" >>

====
